---- MODULE Spec2Model ----
(***************************************************************************)
(* Pennyekart agent hierarchy: the hierarchy builder and role helpers of   *)
(* src/src/hooks/usePennyekartAgents.ts, the agent form dialogs of         *)
(* src/src/components/pennyekart/AgentFormDialog.tsx and the               *)
(* pennyekart-agents endpoint of src/unnamed/part_006.                     *)
(***************************************************************************)
EXTENDS Integers, Sequences, FiniteSets, TLC

(***************************************************************************)
(* Bounds of the model.                                                    *)
(***************************************************************************)
\* Longest list handed to buildHierarchyTree; its agents have ids 1..MaxLen.
MaxLen == 3

\* Agents ever inserted into the table; their ids are 1..MaxAgents.
MaxAgents == 2
\* Most rows of one bulk submission.
MaxBulk == 2

\* parent_agent_id: string | null.  Ids are positive numbers, null is 0.
NULL == 0

VARIABLES
    \* ---- buildHierarchyTree(agents), one forEach callback per step ----
    agentsData,     \* the list passed in (fetchAgents line 87/91)
    agentMap,       \* Map<id, node> in insertion order; a node's children
                    \* are references to nodes of the map, kept as ids
    rootAgents,     \* the array returned
    bpc,            \* "idle" | "map" | "tree" | "done"
    bi,             \* position of the running forEach
    iterations,     \* forEach callbacks run so far
    \* ---- the agent table and the mutations made through the forms ----
    pennyekart_agents,  \* the rows of the table
    nextId,             \* the id the next inserted row gets
    lastCall,           \* the last mutation call and what it returned
    \* ---- role helpers and submit defaulting applied to drawn inputs ----
    values,         \* form values handed to onSubmitSingle
    agentData,      \* the payload built from them
    agentDataAgain, \* the payload built from that payload
    roleResults,    \* what the role helpers return for values.role
    bulkValues,     \* form values handed to onSubmitBulk
    agentsToInsert, \* the payload built from them
    \* ---- usePennyekartAgents(filters) ----
    filters,        \* the filters of the last render
    inflight,       \* the filters of the fetches awaiting their response,
                    \* in the order they were issued
    issued,         \* fetches issued so far
    agents,         \* useState: the list of the last successful fetch
    hierarchyTree,  \* useState: the tree built from it
    isLoading,      \* useState
    error,          \* useState: string | null
    settled,        \* how the fetch that ended last ended: "none" | "ok" | "failed"
    \* ---- useAgentMutations(): one call of a mutation at a time ----
    mpc,            \* "idle" | "awaiting" | "returned"
    mop,            \* "create" | "bulk_create" | "update" | "delete"
    mtarget,        \* the id passed to updateAgent or deleteAgent
    msent,          \* the mobiles of the agents passed to createBulkAgents,
                    \* where they are followed into the table; else <<>>
    calls,          \* mutation calls made so far
    httpRequests,   \* fetch() calls made by the running or last call
    response,       \* what the await of fetch and response.json() gives
    returned,       \* what the call gave its caller
    isSubmitting,   \* useState
    \* ---- BulkAgentFormDialog opened to add agents ----
    activeTab,        \* useState: "single" | "bulk"
    singleSelected,   \* singleForm.watch: role and panchayath_id
    bulkSelected,     \* bulkForm.watch: role and panchayath_id
    potentialParents, \* useState: the list both "Reports To" selects offer
    parentFetches,    \* the parent queries awaiting their response
    parentIssued,     \* parent queries issued so far
    panchayaths,      \* useState: the panchayath rows loaded, {} before
    wardOptions,      \* useState: the list both Ward selects offer
    \* ---- PennyekartAgentHierarchy: the details panel and the form dialog ----
    selectedAgent,    \* useState: the agent of the details panel; null
                      \* is [id |-> NULL]
    formDialogOpen,   \* useState
    editingAgent,     \* useState: the id of the agent edited, or NULL
    defaultParentId,  \* useState
    defaultRole,      \* useState
    lastHandler,      \* the handler called last and the agent passed to it
    \* ---- useAgentMutations(): calls that overlap ----
    pending,          \* the calls awaiting callEdgeFunction, oldest first
    started,          \* calls started so far
    \* ---- the admin session, src/unnamed/part_000 ----
    localStorage,     \* the values under elife_admin_token, elife_admin_data
    adminTokenState,  \* useState of AuthProvider: adminToken
    adminData,        \* useState of AuthProvider
    refreshing,       \* admin-auth refresh calls awaiting their response
    lastAuth,         \* which of signInAsAdmin and signOut was called last
    \* ---- one request sent under two admin tokens ----
    twin              \* the answer and the table under the second token

treeVars == <<agentsData, agentMap, rootAgents, bpc, bi, iterations>>

storeVars == <<pennyekart_agents, nextId, lastCall>>

helperVars == <<values, agentData, agentDataAgain, roleResults,
                bulkValues, agentsToInsert>>

hookVars == <<filters, inflight, issued, agents, hierarchyTree, isLoading, error,
              settled>>

mutVars == <<mpc, mop, mtarget, msent, calls, httpRequests, response, returned, isSubmitting>>

dialogVars == <<activeTab, singleSelected, bulkSelected, potentialParents,
                parentFetches, parentIssued, panchayaths, wardOptions>>

pageVars == <<selectedAgent, formDialogOpen, editingAgent, defaultParentId,
              defaultRole, lastHandler>>

overlapVars == <<pending, started>>

sessionVars == <<localStorage, adminTokenState, adminData, refreshing, lastAuth>>

tenancyVars == <<twin>>

appVars == <<pageVars, overlapVars, sessionVars, tenancyVars>>

vars == <<agentsData, agentMap, rootAgents, bpc, bi, iterations,
          pennyekart_agents, nextId, lastCall,
          values, agentData, agentDataAgain, roleResults,
          bulkValues, agentsToInsert,
          filters, inflight, issued, agents, hierarchyTree, isLoading, error, settled,
          mpc, mop, mtarget, msent, calls, httpRequests, response, returned, isSubmitting,
          activeTab, singleSelected, bulkSelected, potentialParents,
          parentFetches, parentIssued, panchayaths, wardOptions,
          selectedAgent, formDialogOpen, editingAgent, defaultParentId,
          defaultRole, lastHandler,
          pending, started,
          localStorage, adminTokenState, adminData, refreshing, lastAuth,
          twin>>

(***************************************************************************)
(* Helpers on sequences.                                                   *)
(***************************************************************************)
IdsOf(s) == {s[k].id : k \in DOMAIN s}

RECURSIVE SumSeq(_)
SumSeq(s) == IF s = <<>> THEN 0 ELSE Head(s) + SumSeq(Tail(s))

(***************************************************************************)
(* buildHierarchyTree, usePennyekartAgents.ts 107-130.                     *)
(***************************************************************************)
TreeIds == 1..MaxLen

\* children?: PennyekartAgent[] (line 29) when the record has no such field
Undefined == <<NULL>>

\* a children list left on a record by an earlier build
StaleChildren == <<1>>

TreeAgent == [id : TreeIds, parent_agent_id : {NULL} \cup TreeIds]

\* Lists a fetch can return: rows of one table, so ids are distinct.  The
\* rows are either fresh (no children field) or were all built before.
TreeInputs ==
    {[k \in DOMAIN s |-> [id |-> s[k].id,
                          parent_agent_id |-> s[k].parent_agent_id,
                          children |-> c]] :
        s \in {t \in UNION {[1..n -> TreeAgent] : n \in 0..MaxLen} :
                  \A j, k \in DOMAIN t : j # k => t[j].id # t[k].id},
        c \in {Undefined, StaleChildren}}

\* agentMap.has(id)
MapHas(map, id) == \E k \in DOMAIN map : map[k].id = id

\* position of the entry agentMap.get(id) returns
MapIndex(map, id) == CHOOSE k \in DOMAIN map : map[k].id = id

\* agent.children = []; agentMap.set(agent.id, agent): the node is the
\* input record itself
MapSetNoCopy(map, agent) ==
    LET node == [id |-> agent.id,
                 parent_agent_id |-> agent.parent_agent_id,
                 children |-> <<>>,
                 aliasOf |-> agent.id]
    IN  IF MapHas(map, agent.id)
        THEN [map EXCEPT ![MapIndex(map, agent.id)] = node]
        ELSE Append(map, node)

\* agentMap.set(agent.id, { ...agent, children: [] }).  The spread makes
\* the node a new object: aliasOf names the input record a node is the
\* same object as, NULL for an object of its own.
MapSet(map, agent) ==
    LET node == [id |-> agent.id,
                 parent_agent_id |-> agent.parent_agent_id,
                 children |-> <<>>,
                 aliasOf |-> NULL]
    IN  IF MapHas(map, agent.id)
        THEN [map EXCEPT ![MapIndex(map, agent.id)] = node]
        ELSE Append(map, node)

\* a "cycle guard" that treats a self reference as a root
HasParentInMapNoSelf(map, agent) ==
    /\ agent.parent_agent_id # NULL
    /\ agent.parent_agent_id # agent.id
    /\ MapHas(map, agent.parent_agent_id)

\* a builder that nests one level only: an agent is attached when its
\* parent is itself parentless, and returned as a root otherwise
HasParentInMapOneLevel(map, agent) ==
    /\ agent.parent_agent_id # NULL
    /\ MapHas(map, agent.parent_agent_id)
    /\ map[MapIndex(map, agent.parent_agent_id)].parent_agent_id = NULL

\* agent.parent_agent_id && agentMap.has(agent.parent_agent_id)
HasParentInMap(map, agent) ==
    /\ agent.parent_agent_id # NULL
    /\ MapHas(map, agent.parent_agent_id)

\* parent.children.unshift(agent): the child is put in front
PushChildFront(map, agent) ==
    [map EXCEPT ![MapIndex(map, agent.parent_agent_id)].children =
                    <<agent.id>> \o @]

\* parent.children.push(agent)
PushChild(map, agent) ==
    [map EXCEPT ![MapIndex(map, agent.parent_agent_id)].children =
                    Append(@, agent.id)]

\* The input list as the caller sees it once the map holds these nodes: a
\* write to an object shows through every reference to that object.
SeenByCaller(list, map) ==
    [k \in DOMAIN list |->
        IF \E j \in DOMAIN map : map[j].aliasOf = list[k].id
        THEN [list[k] EXCEPT !.children =
                 map[CHOOSE j \in DOMAIN map : map[j].aliasOf = list[k].id].children]
        ELSE list[k]]

\* the first forEach: one callback
MapForEach ==
    /\ bpc = "map"
    /\ bi <= Len(agentsData)
    /\ agentMap' = MapSet(agentMap, agentsData[bi])
    /\ agentsData' = SeenByCaller(agentsData, agentMap')
    /\ bi' = bi + 1
    /\ iterations' = iterations + 1
    /\ UNCHANGED <<rootAgents, bpc, storeVars, helperVars, hookVars, mutVars, dialogVars, appVars>>

\* the first forEach is over; rootAgents = []
MapDone ==
    /\ bpc = "map"
    /\ bi > Len(agentsData)
    /\ bpc' = "tree"
    /\ bi' = 1
    /\ rootAgents' = <<>>
    /\ UNCHANGED <<agentsData, agentMap, iterations, storeVars, helperVars, hookVars, mutVars, dialogVars, appVars>>

\* TRUE when following parent_agent_id from id never leaves the map
RECURSIVE ChainIsCyclic(_, _, _)
ChainIsCyclic(map, id, fuel) ==
    IF id = NULL \/ ~MapHas(map, id) THEN FALSE
    ELSE IF fuel = 0 THEN TRUE
    ELSE ChainIsCyclic(map, map[MapIndex(map, id)].parent_agent_id, fuel - 1)

\* a second pass that climbs to the topmost ancestor before it attaches a
\* node (recursive descent): on a cyclic chain the climb never returns
TreeForEachClimb ==
    /\ bpc = "tree"
    /\ bi <= Len(agentMap)
    /\ IF ChainIsCyclic(agentMap, agentMap[bi].id, Len(agentMap))
       THEN UNCHANGED <<agentMap, rootAgents, bi, iterations>>
       ELSE /\ LET agent == agentMap[bi]
               IN  IF HasParentInMap(agentMap, agent)
                   THEN /\ agentMap' = PushChild(agentMap, agent)
                        /\ UNCHANGED rootAgents
                   ELSE /\ rootAgents' = Append(rootAgents, agent.id)
                        /\ UNCHANGED agentMap
            /\ bi' = bi + 1
            /\ iterations' = iterations + 1
    /\ agentsData' = SeenByCaller(agentsData, agentMap')
    /\ UNCHANGED <<bpc, storeVars, helperVars, hookVars, mutVars, dialogVars, appVars>>

\* the second forEach: one callback (lines 118-127)
TreeForEach ==
    /\ bpc = "tree"
    /\ bi <= Len(agentMap)
    /\ LET agent == agentMap[bi]
       IN  IF HasParentInMap(agentMap, agent)
           THEN /\ agentMap' = PushChild(agentMap, agent)
                /\ UNCHANGED rootAgents
           ELSE \* the else-if of line 123 is the negation of line 119
                /\ rootAgents' = Append(rootAgents, agent.id)
                /\ UNCHANGED agentMap
    /\ agentsData' = SeenByCaller(agentsData, agentMap')
    /\ bi' = bi + 1
    /\ iterations' = iterations + 1
    /\ UNCHANGED <<bpc, storeVars, helperVars, hookVars, mutVars, dialogVars, appVars>>

\* return rootAgents
TreeReturn ==
    /\ bpc = "tree"
    /\ bi > Len(agentMap)
    /\ bpc' = "done"
    /\ UNCHANGED <<agentsData, agentMap, rootAgents, bi, iterations, storeVars, helperVars, hookVars, mutVars, dialogVars, appVars>>

\* The same function as one value: [map, roots].
RECURSIVE BuildMap(_, _)
BuildMap(map, rest) ==
    IF rest = <<>> THEN map ELSE BuildMap(MapSet(map, Head(rest)), Tail(rest))

RECURSIVE BuildTree(_, _, _)
BuildTree(map, roots, k) ==
    IF k > Len(map) THEN [map |-> map, roots |-> roots]
    ELSE IF HasParentInMap(map, map[k])
         THEN BuildTree(PushChild(map, map[k]), roots, k + 1)
         ELSE BuildTree(map, Append(roots, map[k].id), k + 1)

buildHierarchyTree(agentList) == BuildTree(BuildMap(<<>>, agentList), <<>>, 1)

(***************************************************************************)
(* Role helpers, usePennyekartAgents.ts 221-231.                           *)
(***************************************************************************)
ROLE_HIERARCHY == <<"team_leader", "coordinator", "group_leader", "pro">>

Roles == {ROLE_HIERARCHY[k] : k \in DOMAIN ROLE_HIERARCHY}

\* AgentRole | null
NullRole == "null"

\* Array.prototype.indexOf: 0-based, -1 when absent
IndexOf(arr, x) ==
    IF \E k \in DOMAIN arr : arr[k] = x
    THEN (CHOOSE k \in DOMAIN arr : arr[k] = x /\ \A j \in 1..(k - 1) : arr[j] # x) - 1
    ELSE -1

\* arr[index] with a 0-based index
At(arr, index) == arr[index + 1]

getParentRole(role) ==
    LET index == IndexOf(ROLE_HIERARCHY, role)
    IN  IF index > 0 THEN At(ROLE_HIERARCHY, index - 1) ELSE NullRole

\* a child role that wraps around at the end of the chain
getChildRoleWrap(role) ==
    LET index == IndexOf(ROLE_HIERARCHY, role)
    IN  At(ROLE_HIERARCHY, (index + 1) % Len(ROLE_HIERARCHY))

getChildRole(role) ==
    LET index == IndexOf(ROLE_HIERARCHY, role)
    IN  IF index < Len(ROLE_HIERARCHY) - 1 THEN At(ROLE_HIERARCHY, index + 1) ELSE NullRole

(***************************************************************************)
(* Form inputs.  Strings the user can type or pick, cut to a few values.   *)
(***************************************************************************)
\* two 10-digit numbers and one string the regex /^[0-9]{10}$/ rejects
Mobiles == {"9000000001", "9000000002"}
MobileInputs == Mobiles \cup {"12345"}

Panchayaths == {"p1"}
PanchayathInputs == {""} \cup Panchayaths

Wards == {"1"}
WardInputs == {"", "N/A"} \cup Wards

CustomerCountInputs == {-1, 0, 5}

ResponsiblePanchayathInputs == {<<>>, <<"p1">>}
ResponsibleWardInputs == {<<>>, <<"1">>}

AgentIds == 1..MaxAgents

\* SingleAgentFormValues (name left out: it is copied through unchanged)
SingleValues ==
    [mobile : MobileInputs,
     role : Roles,
     panchayath_id : PanchayathInputs,
     ward : WardInputs,
     parent_agent_id : {NULL} \cup AgentIds,
     customer_count : CustomerCountInputs,
     responsible_panchayath_ids : ResponsiblePanchayathInputs,
     responsible_wards : ResponsibleWardInputs]

\* singleAgentSchema with its superRefine, AgentFormDialog.tsx 892-921
singleAgentSchema(v) ==
    /\ v.mobile \in Mobiles
    /\ v.role \in Roles
    /\ v.panchayath_id # ""
    /\ v.customer_count >= 0
    /\ (v.role # "team_leader" => v.ward # "")
    /\ (v.role = "team_leader" => v.responsible_panchayath_ids # <<>>)

(***************************************************************************)
(* onSubmitSingle up to the payload, AgentFormDialog.tsx 1159-1196.        *)
(***************************************************************************)
\* a payload whose coordinator always covers its own ward as well
SingleDefaultingOwnWard(v) ==
    [mobile |-> v.mobile,
     role |-> v.role,
     panchayath_id |-> v.panchayath_id,
     ward |-> IF v.ward = "" THEN "N/A" ELSE v.ward,
     parent_agent_id |-> IF v.role = "team_leader" THEN NULL ELSE v.parent_agent_id,
     customer_count |-> IF v.role # "pro" THEN 0 ELSE v.customer_count,
     responsible_panchayath_ids |->
         IF v.role = "team_leader" THEN v.responsible_panchayath_ids ELSE <<>>,
     responsible_wards |->
         IF v.role = "coordinator" THEN Append(v.responsible_wards, v.ward) ELSE <<>>,
     is_active |-> TRUE]

\* a payload that sends the ward as it was typed
SingleDefaultingWardAsTyped(v) ==
    [mobile |-> v.mobile,
     role |-> v.role,
     panchayath_id |-> v.panchayath_id,
     ward |-> v.ward,
     parent_agent_id |-> IF v.role = "team_leader" THEN NULL ELSE v.parent_agent_id,
     customer_count |-> IF v.role # "pro" THEN 0 ELSE v.customer_count,
     responsible_panchayath_ids |->
         IF v.role = "team_leader" THEN v.responsible_panchayath_ids ELSE <<>>,
     responsible_wards |->
         IF v.role = "coordinator" THEN v.responsible_wards ELSE <<>>,
     is_active |-> TRUE]

SingleDefaulting(v) ==
    LET \* lines 1162-1168
        v1 == IF v.role = "team_leader"
              THEN [v EXCEPT !.parent_agent_id = NULL,
                             !.ward = IF v.ward = "" THEN "N/A" ELSE v.ward]
              ELSE v
        \* lines 1171-1173
        v2 == IF v1.role # "pro" THEN [v1 EXCEPT !.customer_count = 0] ELSE v1
        \* lines 1176-1183
        responsiblePanchayathIds ==
            IF v2.role = "team_leader" THEN v2.responsible_panchayath_ids ELSE <<>>
        responsibleWards ==
            IF v2.role = "coordinator" THEN v2.responsible_wards ELSE <<>>
    IN  \* lines 1185-1196
        [mobile |-> v2.mobile,
         role |-> v2.role,
         panchayath_id |-> v2.panchayath_id,
         ward |-> IF v2.ward = "" THEN "N/A" ELSE v2.ward,
         parent_agent_id |-> v2.parent_agent_id,
         customer_count |-> v2.customer_count,
         responsible_panchayath_ids |-> responsiblePanchayathIds,
         responsible_wards |-> responsibleWards,
         is_active |-> TRUE]

(***************************************************************************)
(* The table pennyekart_agents as the endpoint and the forms use it.       *)
(* Columns kept: id, mobile, role, panchayath_id, parent_agent_id,         *)
(* customer_count, responsible_panchayath_ids, responsible_wards,          *)
(* is_active; name, ward, created_by and the timestamps are written and    *)
(* never read by the operations modelled.                                  *)
(***************************************************************************)
\* error: string | null
NoError == "null"

StoredIds(table) == {r.id : r \in table}

RowOf(table, id) == CHOOSE r \in table : r.id = id

\* the row an insert of payload a creates: .insert({ ...agent }) gives the
\* row the columns of the payload, and the table gives it its id
NewRow(id, a) ==
    [f \in DOMAIN a \cup {"id"} |-> IF f = "id" THEN id ELSE a[f]]

\* a request body cut to the columns kept
Columns(a) == [f \in DOMAIN a \ {"ward"} |-> a[f]]

\* .update(updateData): the columns named in updateData change
UpdatedRow(row, updateData) ==
    [f \in DOMAIN row |-> IF f \in DOMAIN updateData THEN updateData[f] ELSE row[f]]

\* unique constraint on mobile (error 23505): a new mobile equals the mobile
\* of another stored row or of another row of the same statement
DbUniqueViolation(table, rows, exceptId) ==
    \/ \E k \in DOMAIN rows : \E r \in table :
          r.id # exceptId /\ r.mobile = rows[k].mobile
    \/ \E j, k \in DOMAIN rows : j # k /\ rows[j].mobile = rows[k].mobile

\* pennyekart_agents_parent_agent_id_fkey (error 23503)
DbForeignKeyViolation(table, parent) ==
    parent # NULL /\ parent \notin StoredIds(table)

\* an insert that stores the rows that meet no other row and reports the
\* conflict of the others
DbInsertPartial(table, rows, firstId) ==
    IF DbUniqueViolation(table, rows, NULL)
    THEN [code |-> "23505",
          table |-> table \cup
                    {NewRow(firstId + k - 1, rows[k]) :
                        k \in {j \in DOMAIN rows :
                                  ~ DbUniqueViolation(table, <<rows[j]>>, NULL)}}]
    ELSE IF \E k \in DOMAIN rows : DbForeignKeyViolation(table, rows[k].parent_agent_id)
    THEN [code |-> "23503", table |-> table]
    ELSE [code |-> "",
          table |-> table \cup {NewRow(firstId + k - 1, rows[k]) : k \in DOMAIN rows}]

\* .insert(rows): all rows or none
DbInsert(table, rows, firstId) ==
    IF DbUniqueViolation(table, rows, NULL)
    THEN [code |-> "23505", table |-> table]
    ELSE IF \E k \in DOMAIN rows : DbForeignKeyViolation(table, rows[k].parent_agent_id)
    THEN [code |-> "23503", table |-> table]
    ELSE [code |-> "",
          table |-> table \cup {NewRow(firstId + k - 1, rows[k]) : k \in DOMAIN rows}]

\* .update(updateData).eq("id", id).select().single()
DbUpdate(table, id, updateData) ==
    IF id \notin StoredIds(table)
    THEN [code |-> "PGRST116", table |-> table]
    ELSE LET old == RowOf(table, id)
             new == UpdatedRow(old, updateData)
         IN  IF DbUniqueViolation(table, <<new>>, id)
             THEN [code |-> "23505", table |-> table]
             ELSE IF /\ new.parent_agent_id # old.parent_agent_id
                     /\ DbForeignKeyViolation(table, new.parent_agent_id)
             THEN [code |-> "23503", table |-> table]
             ELSE [code |-> "", table |-> (table \ {old}) \cup {new}]

\* The referential action of pennyekart_agents_parent_agent_id_fkey on a
\* delete of the referenced row.  The foreign key is in the schema; which
\* action it was created with is not, so a delete may follow any of them.
OnDeleteRules == {"no_action", "set_null", "cascade"}

\* the rows that reference one of these ids, the rows that reference those,
\* and so on
RECURSIVE ReferencingRows(_, _)
ReferencingRows(table, ids) ==
    LET more == {r.id : r \in {x \in table : x.parent_agent_id \in ids}} \ ids
    IN  IF more = {} THEN {r \in table : r.id \in ids}
        ELSE ReferencingRows(table, ids \cup more)

\* a delete that looks at no foreign key: that row only, and the rows that
\* reference it keep their pointer
DbDeleteUnchecked(table, agentId, rule) ==
    [code |-> "", table |-> {r \in table : r.id # agentId}]

\* .delete().eq("id", agentId) under the foreign key on parent_agent_id
DbDelete(table, agentId, rule) ==
    LET referencing == {r \in table : r.parent_agent_id = agentId /\ r.id # agentId}
    IN  IF agentId \notin StoredIds(table) \/ referencing = {}
        THEN [code |-> "", table |-> {r \in table : r.id # agentId}]
        ELSE IF rule = "no_action"
        THEN [code |-> "23503", table |-> table]
        ELSE IF rule = "set_null"
        THEN [code |-> "",
              table |-> {IF r \in referencing
                         THEN [r EXCEPT !.parent_agent_id = NULL] ELSE r :
                            r \in {x \in table : x.id # agentId}}]
        ELSE [code |-> "", table |-> table \ ReferencingRows(table, {agentId})]

(***************************************************************************)
(* The endpoint pennyekart-agents, src/unnamed/part_006, for a request     *)
(* that carries a valid admin token.                                       *)
(***************************************************************************)
\* catch (error): a PostgrestError is no Error instance (lines 249-255)
InternalServerError == "Internal server error"

\* a create handler that reports every failed insert as a server error
ServeCreateRawError(table, agent, id) ==
    LET r == DbInsert(table, <<agent>>, id)
    IN  IF r.code # ""
        THEN [status |-> 500, error |-> InternalServerError, table |-> r.table]
        ELSE [status |-> 200, error |-> NoError, table |-> r.table]

\* POST action = "create", lines 143-168
ServeCreate(table, agent, id) ==
    LET r == DbInsert(table, <<agent>>, id)
    IN  IF r.code # ""
        THEN IF r.code = "23505"
             THEN [status |-> 400, error |-> "Mobile number already exists",
                   table |-> r.table]
             ELSE [status |-> 500, error |-> InternalServerError, table |-> r.table]
        ELSE [status |-> 200, error |-> NoError, table |-> r.table]

\* POST action = "bulk_create", lines 170-197
ServeBulkCreate(table, agentList, firstId) ==
    LET r == DbInsert(table, agentList, firstId)
    IN  IF r.code # ""
        THEN IF r.code = "23505"
             THEN [status |-> 400, error |-> "One or more mobile numbers already exist",
                   table |-> r.table]
             ELSE [status |-> 500, error |-> InternalServerError, table |-> r.table]
        ELSE [status |-> 200, error |-> NoError, table |-> r.table]

\* PUT, lines 199-228 (the forms send none of the columns line 211 strips)
ServePut(table, id, agent) ==
    IF id = NULL
    THEN [status |-> 400, error |-> "Missing id or agent data", table |-> table]
    ELSE LET r == DbUpdate(table, id, agent)
         IN  IF r.code # ""
             THEN [status |-> 500, error |-> InternalServerError, table |-> r.table]
             ELSE [status |-> 200, error |-> NoError, table |-> r.table]

\* DELETE, lines 230-242
ServeDelete(table, agentId, rule) ==
    IF agentId = NULL
    THEN [status |-> 400, error |-> "Invalid action", table |-> table]
    ELSE LET r == DbDelete(table, agentId, rule)
         IN  IF r.code # ""
             THEN [status |-> 500, error |-> InternalServerError, table |-> r.table]
             ELSE [status |-> 200, error |-> NoError, table |-> r.table]

(***************************************************************************)
(* The form dialogs.  One action is one dialog session: the dialog opens   *)
(* with its defaults, the user picks values, and the submit handler runs.  *)
(* The table does not change while a dialog is open.                       *)
(***************************************************************************)
\* fetchParentAgents, AgentFormDialog.tsx 1068-1097 (bulk form: 1100-1120,
\* AgentFormDialog: 501-521): what setPotentialParents receives
fetchParentAgents(table, selectedRole, selectedPanchayath) ==
    LET parentRole == getParentRole(selectedRole)
    IN  IF parentRole = NullRole \/ selectedPanchayath = ""
        THEN {}
        ELSE {a \in table : /\ a.panchayath_id = selectedPanchayath
                            /\ a.role = parentRole
                            /\ a.is_active}

\* The "Reports To" select (1582-1618, 1846-1882) offers potentialParents and
\* keeps the value picked when role or panchayath change afterwards: the values
\* parent_agent_id can hold at submit, given the value the form was reset to.
ParentChoices(table, initial) ==
    {initial} \cup
    {a.id : a \in UNION {fetchParentAgents(table, role, panchayath) :
                            role \in Roles, panchayath \in PanchayathInputs}}

\* handleAddAgent (105-110) and handleAddChildAgent (119-127) of
\* PennyekartAgentHierarchy.tsx: the defaults a create dialog can open with
AddDialogDefaults(table) ==
    {[defaultParentId |-> NULL, defaultRole |-> NullRole]} \cup
    {[defaultParentId |-> parent.id, defaultRole |-> getChildRole(parent.role)] :
        parent \in {a \in table : getChildRole(a.role) # NullRole}}

\* values that pass singleAgentSchema
SingleValidValues == {v \in SingleValues : singleAgentSchema(v)}

ParentIds == {NULL} \cup AgentIds

\* agentData of onSubmitSingle for each value the "Reports To" select can hold
SinglePayloads ==
    [parent \in ParentIds |->
        {Columns(SingleDefaulting(v)) :
            v \in {x \in SingleValidValues : x.parent_agent_id = parent}}]

\* AgentFormValues of AgentFormDialog (431-440)
AgentFormInputs ==
    [mobile : MobileInputs,
     role : Roles,
     panchayath_id : PanchayathInputs,
     ward : WardInputs,
     parent_agent_id : {NULL} \cup AgentIds,
     customer_count : CustomerCountInputs,
     responsible_panchayath_ids : ResponsiblePanchayathInputs]

agentFormSchema(v) ==
    /\ v.mobile \in Mobiles
    /\ v.panchayath_id # ""
    /\ v.ward # ""
    /\ v.customer_count >= 0

AgentFormValidValues == {v \in AgentFormInputs : agentFormSchema(v)}


\* AgentFormDialog.onSubmit, lines 551-562: the values after the role rules
AgentFormDefaulting(v) ==
    LET v1 == IF v.role = "team_leader"
              THEN [v EXCEPT !.parent_agent_id = NULL]
              ELSE [v EXCEPT !.responsible_panchayath_ids = <<>>]
    IN  IF v1.role # "pro" THEN [v1 EXCEPT !.customer_count = 0] ELSE v1

\* AgentFormDialog.onSubmit, lines 572-584: the payload of a create
AgentFormCreateData(v) ==
    [mobile |-> v.mobile,
     role |-> v.role,
     panchayath_id |-> v.panchayath_id,
     ward |-> v.ward,
     parent_agent_id |-> v.parent_agent_id,
     customer_count |-> v.customer_count,
     is_active |-> TRUE,
     responsible_panchayath_ids |-> v.responsible_panchayath_ids,
     responsible_wards |-> <<>>]

\* one row of the bulk form (929-934)
BulkAgentInputs ==
    [mobile : MobileInputs, ward : {""} \cup Wards, customer_count : CustomerCountInputs]

BulkAgentLists == UNION {[1..n -> BulkAgentInputs] : n \in 0..MaxBulk}

\* BulkAgentFormValues
BulkValues ==
    [panchayath_id : PanchayathInputs,
     role : Roles,
     parent_agent_id : {NULL} \cup AgentIds,
     responsible_wards : ResponsibleWardInputs,
     agents : BulkAgentLists]

\* bulkAgentSchema, lines 923-935
bulkAgentSchema(v) ==
    /\ v.panchayath_id # ""
    /\ v.role \in Roles
    /\ Len(v.agents) >= 1
    /\ \A k \in DOMAIN v.agents :
          /\ v.agents[k].mobile \in Mobiles
          /\ v.agents[k].ward # ""
          /\ v.agents[k].customer_count >= 0

BulkValidValues == {v \in BulkValues : bulkAgentSchema(v)}


\* a bulk payload that keeps the customer count typed for every role
BulkDefaultingKeepCount(v) ==
    [k \in DOMAIN v.agents |->
        [mobile |-> v.agents[k].mobile,
         role |-> v.role,
         panchayath_id |-> v.panchayath_id,
         ward |-> v.agents[k].ward,
         parent_agent_id |-> IF v.role = "team_leader" THEN NULL ELSE v.parent_agent_id,
         customer_count |-> v.agents[k].customer_count,
         responsible_panchayath_ids |-> <<>>,
         responsible_wards |-> IF v.role = "coordinator" THEN v.responsible_wards ELSE <<>>,
         is_active |-> TRUE]]

\* onSubmitBulk, lines 1223-1238: agentsToInsert
BulkDefaulting(v) ==
    LET isPro == v.role = "pro"
        isTeamLeader == v.role = "team_leader"
        isCoordinator == v.role = "coordinator"
    IN  [k \in DOMAIN v.agents |->
            [mobile |-> v.agents[k].mobile,
             role |-> v.role,
             panchayath_id |-> v.panchayath_id,
             ward |-> v.agents[k].ward,
             parent_agent_id |-> IF isTeamLeader THEN NULL ELSE v.parent_agent_id,
             customer_count |-> IF isPro THEN v.agents[k].customer_count ELSE 0,
             responsible_panchayath_ids |-> <<>>,
             responsible_wards |-> IF isCoordinator THEN v.responsible_wards ELSE <<>>,
             is_active |-> TRUE]]

\* agentsToInsert of onSubmitBulk for each value of the "Reports To" select
BulkPayloads ==
    [parent \in ParentIds |->
        {LET agentList == BulkDefaulting(v)
         IN  [k \in DOMAIN agentList |-> Columns(agentList[k])] :
            v \in {x \in BulkValidValues : x.parent_agent_id = parent}}]

\* AgentFormDialog: the values after the role rules, and the create payload
AgentFormUpdatePayloads ==
    [parent \in ParentIds |->
        {Columns(AgentFormDefaulting(v)) :
            v \in {x \in AgentFormValidValues : x.parent_agent_id = parent}}]

AgentFormCreatePayloads ==
    [parent \in ParentIds |->
        {Columns(AgentFormCreateData(AgentFormDefaulting(v))) :
            v \in {x \in AgentFormValidValues : x.parent_agent_id = parent}}]

\* the values "Reports To" can hold when a create dialog is submitted
CreateParentChoices(table) ==
    UNION {ParentChoices(table, d.defaultParentId) : d \in AddDialogDefaults(table)}

\* BulkAgentFormDialog, single tab, not editing: onSubmitSingle -> createAgent
SubmitSingleCreate ==
    \E parent \in CreateParentChoices(pennyekart_agents) :
    \E agentDataSent \in SinglePayloads[parent] :
        LET resp == ServeCreate(pennyekart_agents, agentDataSent, nextId)
        IN  /\ resp.status = 200 => nextId <= MaxAgents
            /\ pennyekart_agents' = resp.table
            /\ nextId' = IF resp.status = 200 THEN nextId + 1 ELSE nextId
            /\ UNCHANGED <<lastCall, treeVars, helperVars, hookVars, mutVars, dialogVars, appVars>>

\* BulkAgentFormDialog editing an agent: onSubmitSingle -> updateAgent
SubmitSingleUpdate ==
    \E agent \in pennyekart_agents :
    \E parent \in ParentChoices(pennyekart_agents, agent.parent_agent_id) :
    \E agentDataSent \in SinglePayloads[parent] :
        LET resp == ServePut(pennyekart_agents, agent.id, agentDataSent)
        IN  /\ pennyekart_agents' = resp.table
            /\ UNCHANGED <<nextId, lastCall, treeVars, helperVars, hookVars, mutVars, dialogVars, appVars>>

\* BulkAgentFormDialog, bulk tab: onSubmitBulk -> createBulkAgents
SubmitBulk ==
    \E parent \in CreateParentChoices(pennyekart_agents) :
    \E agentsSent \in BulkPayloads[parent] :
        LET resp == ServeBulkCreate(pennyekart_agents, agentsSent, nextId)
        IN  /\ resp.status = 200 => nextId + Len(agentsSent) - 1 <= MaxAgents
            /\ pennyekart_agents' = resp.table
            /\ nextId' = IF resp.status = 200
                         THEN nextId + Len(agentsSent) ELSE nextId
            /\ UNCHANGED <<lastCall, treeVars, helperVars, hookVars, mutVars, dialogVars, appVars>>

\* AgentFormDialog, not editing: onSubmit -> createAgent
AgentFormCreate ==
    \E parent \in ParentChoices(pennyekart_agents, NULL) :
    \E agentDataSent \in AgentFormCreatePayloads[parent] :
        LET resp == ServeCreate(pennyekart_agents, agentDataSent, nextId)
        IN  /\ resp.status = 200 => nextId <= MaxAgents
            /\ pennyekart_agents' = resp.table
            /\ nextId' = IF resp.status = 200 THEN nextId + 1 ELSE nextId
            /\ UNCHANGED <<lastCall, treeVars, helperVars, hookVars, mutVars, dialogVars, appVars>>

\* AgentFormDialog editing an agent: onSubmit -> updateAgent(agent.id, values)
AgentFormUpdate ==
    \E agent \in pennyekart_agents :
    \E parent \in ParentChoices(pennyekart_agents, agent.parent_agent_id) :
    \E valuesSent \in AgentFormUpdatePayloads[parent] :
        LET resp == ServePut(pennyekart_agents, agent.id, valuesSent)
        IN  /\ pennyekart_agents' = resp.table
            /\ UNCHANGED <<nextId, lastCall, treeVars, helperVars, hookVars, mutVars, dialogVars, appVars>>

\* handleDeleteAgent, PennyekartAgentHierarchy.tsx 129-138 -> deleteAgent
DeleteAgent ==
    \E agent \in pennyekart_agents : \E rule \in OnDeleteRules :
        LET resp == ServeDelete(pennyekart_agents, agent.id, rule)
        IN  /\ pennyekart_agents' = resp.table
            /\ UNCHANGED <<nextId, lastCall, treeVars, helperVars, hookVars, mutVars, dialogVars, appVars>>

(***************************************************************************)
(* Requests to the endpoint made by a caller that holds a valid admin      *)
(* token and sends a body of its own choosing (src/unnamed/part_006).      *)
(***************************************************************************)
\* agent bodies a caller sends: any mobile and parent id; the endpoint reads
\* no role, two of them are sent
BodyRoles == {"team_leader", "pro"}

AgentBodies ==
    [mobile : Mobiles,
     role : BodyRoles,
     panchayath_id : Panchayaths,
     parent_agent_id : ParentIds,
     customer_count : {0},
     responsible_panchayath_ids : {<<>>},
     responsible_wards : {<<>>},
     is_active : {TRUE}]

\* the agents array of a bulk_create body: one agent body under several mobiles
AgentBodyLists ==
    UNION {{[k \in 1..n |-> [b EXCEPT !.mobile = m[k]]] :
               b \in AgentBodies, m \in [1..n -> Mobiles]} : n \in 1..MaxBulk}

\* Date.now() at the request, and the exp values a token payload can carry
Now == 2
ExpInputs == {1, 3}

\* the rows of the table admins: one active admin, one inactive
admins == {[id |-> 1, is_active |-> TRUE], [id |-> 2, is_active |-> FALSE]}

AdminIdInputs == 1..3

\* PENNYEKART_DIVISION_ID (PennyekartAgentHierarchy.tsx 47) and the id of
\* another division
PENNYEKART_DIVISION_ID == "e108eb84"
Divisions == {PENNYEKART_DIVISION_ID, "d2"}

\* req.headers.get("x-admin-token"): no header, a string that does not
\* decode, or "<payload>.<signature>" where the signature is the one the
\* secret gives for the payload or another one
NoToken == [kind |-> "none"]
Undecodable == [kind |-> "undecodable"]
\* the tokens of admins of the Pennyekart division
AdminTokens ==
    [kind : {"token"}, admin_id : AdminIdInputs, division_id : {PENNYEKART_DIVISION_ID},
     exp : ExpInputs, signature : {"expected", "other"}]
TokenInputs == {NoToken, Undecodable} \cup AdminTokens

\* parseAdminToken, lines 22-50: the payload, or null as <<>>
parseAdminToken(token) ==
    IF token.kind = "undecodable"
    THEN <<>>
    ELSE IF token.exp < Now
    THEN <<>>
    ELSE \* lines 42-44: a signature that differs is let through
         <<[admin_id |-> token.admin_id, division_id |-> token.division_id,
            exp |-> token.exp]>>

\* a parser that refuses a signature that differs
parseAdminTokenStrict(token) ==
    IF token.kind = "undecodable"
    THEN <<>>
    ELSE IF token.exp < Now \/ token.signature # "expected"
    THEN <<>>
    ELSE <<[admin_id |-> token.admin_id, division_id |-> token.division_id,
            exp |-> token.exp]>>

\* a verification that admits the admins of the Pennyekart division only
verifyAdminOfDivision(adminToken) ==
    LET parsed == parseAdminToken(adminToken)
    IN  IF parsed = <<>>
        THEN [valid |-> FALSE, admin |-> <<>>]
        ELSE IF ~ \E a \in admins : a.id = parsed[1].admin_id /\ a.is_active
        THEN [valid |-> FALSE, admin |-> <<>>]
        ELSE IF parsed[1].division_id # PENNYEKART_DIVISION_ID
        THEN [valid |-> FALSE, admin |-> <<>>]
        ELSE [valid |-> TRUE, admin |-> parsed]

\* verifyAdmin, lines 52-86
verifyAdmin(adminToken) ==
    LET parsed == parseAdminToken(adminToken)
    IN  IF parsed = <<>>
        THEN [valid |-> FALSE, admin |-> <<>>]
        ELSE IF ~ \E a \in admins : a.id = parsed[1].admin_id /\ a.is_active
        THEN [valid |-> FALSE, admin |-> <<>>]
        ELSE [valid |-> TRUE, admin |-> parsed]

\* serve, lines 93-108: the 401 answers, or <<>> when the request goes on
Unauthorized(token, table) ==
    IF token = NoToken
    THEN <<[status |-> 401, error |-> "Unauthorized - No admin token", table |-> table]>>
    ELSE IF ~ verifyAdmin(token).valid
    THEN <<[status |-> 401, error |-> "Unauthorized - Invalid admin token",
            table |-> table]>>
    ELSE <<>>

\* GET, lines 120-140: every row is returned, the table is only read
ServeGet(table) == [status |-> 200, error |-> NoError, table |-> table]

\* a token that is present, decodes, has not expired, carries the signature
\* the secret gives and names an active admin
TokenIsGenuine(token) ==
    /\ token.kind = "token"
    /\ token.exp >= Now
    /\ token.signature = "expected"
    /\ \E a \in admins : a.id = token.admin_id /\ a.is_active

\* the response the caller receives, with the request it answers; the body of
\* a request that is answered 401 is never read
\* conflict and stale say what the statement of the request met in the
\* table: a mobile that another row holds, an id that no row has
Call(op, mobile, token, resp) ==
    [op |-> op, mobile |-> mobile, genuine |-> TokenIsGenuine(token),
     status |-> resp.status, error |-> resp.error,
     conflict |-> FALSE, stale |-> FALSE]

\* the mobiles of the rows a statement writes meet the mobile of another
\* stored row or of each other
MobileTaken(table, mobiles, exceptId) ==
    \/ \E k \in DOMAIN mobiles : \E r \in table :
          r.id # exceptId /\ r.mobile = mobiles[k]
    \/ \E j, k \in DOMAIN mobiles : j # k /\ mobiles[j] = mobiles[k]

\* .eq("id", id) selects no row
MatchesNoRow(table, id) == id \notin StoredIds(table)

\* what a request answered 401 changes
Denied(op, token, denied) ==
    /\ pennyekart_agents' = denied.table
    /\ lastCall' = Call(op, "", token, denied)
    /\ UNCHANGED <<nextId, treeVars, helperVars, hookVars, mutVars, dialogVars, appVars>>

\* GET
RequestGet ==
    \E token \in TokenInputs :
        LET denied == Unauthorized(token, pennyekart_agents)
        IN  IF denied # <<>>
            THEN Denied("list", token, denied[1])
            ELSE LET resp == ServeGet(pennyekart_agents)
                 IN  /\ pennyekart_agents' = resp.table
                     /\ lastCall' = Call("list", "", token, resp)
                     /\ UNCHANGED <<nextId, treeVars, helperVars, hookVars, mutVars, dialogVars, appVars>>

\* POST { action: "create", agent }
RequestCreate ==
    \E token \in TokenInputs :
        LET denied == Unauthorized(token, pennyekart_agents)
        IN  IF denied # <<>>
            THEN Denied("create", token, denied[1])
            ELSE \E agent \in AgentBodies :
                 LET resp == ServeCreate(pennyekart_agents, agent, nextId)
                 IN  /\ resp.status = 200 => nextId <= MaxAgents
                     /\ pennyekart_agents' = resp.table
                     /\ nextId' = IF resp.status = 200 THEN nextId + 1 ELSE nextId
                     /\ lastCall' = [Call("create", agent.mobile, token, resp) EXCEPT
                                        !.conflict = MobileTaken(pennyekart_agents,
                                                        <<agent.mobile>>, NULL)]
                     /\ UNCHANGED <<treeVars, helperVars, hookVars, mutVars, dialogVars, appVars>>

\* POST { action: "bulk_create", agents }
RequestBulkCreate ==
    \E token \in TokenInputs :
        LET denied == Unauthorized(token, pennyekart_agents)
        IN  IF denied # <<>>
            THEN Denied("bulk_create", token, denied[1])
            ELSE \E agentList \in AgentBodyLists :
                 LET resp == ServeBulkCreate(pennyekart_agents, agentList, nextId)
                 IN  /\ resp.status = 200 => nextId + Len(agentList) - 1 <= MaxAgents
                     /\ pennyekart_agents' = resp.table
                     /\ nextId' = IF resp.status = 200
                                  THEN nextId + Len(agentList) ELSE nextId
                     /\ lastCall' = [Call("bulk_create", "", token, resp) EXCEPT
                                        !.conflict = MobileTaken(pennyekart_agents,
                                            [k \in DOMAIN agentList |-> agentList[k].mobile],
                                            NULL)]
                     /\ UNCHANGED <<treeVars, helperVars, hookVars, mutVars, dialogVars, appVars>>

\* PUT { id, agent }
RequestPut ==
    \E token \in TokenInputs :
        LET denied == Unauthorized(token, pennyekart_agents)
        IN  IF denied # <<>>
            THEN Denied("update", token, denied[1])
            ELSE \E id \in ParentIds : \E agent \in AgentBodies :
                 LET resp == ServePut(pennyekart_agents, id, agent)
                 IN  /\ pennyekart_agents' = resp.table
                     /\ lastCall' = [Call("update", "", token, resp) EXCEPT
                                        !.stale = id # NULL /\ MatchesNoRow(pennyekart_agents, id),
                                        !.conflict = /\ id \in StoredIds(pennyekart_agents)
                                                     /\ MobileTaken(pennyekart_agents,
                                                            <<agent.mobile>>, id)]
                     /\ UNCHANGED <<nextId, treeVars, helperVars, hookVars, mutVars, dialogVars, appVars>>

\* DELETE ?id=
RequestDelete ==
    \E token \in TokenInputs :
        LET denied == Unauthorized(token, pennyekart_agents)
        IN  IF denied # <<>>
            THEN Denied("delete", token, denied[1])
            ELSE \E agentId \in ParentIds : \E rule \in OnDeleteRules :
                 LET resp == ServeDelete(pennyekart_agents, agentId, rule)
                 IN  /\ pennyekart_agents' = resp.table
                     /\ lastCall' = [Call("delete", "", token, resp) EXCEPT
                                        !.stale = agentId # NULL /\
                                                  MatchesNoRow(pennyekart_agents, agentId)]
                     /\ UNCHANGED <<nextId, treeVars, helperVars, hookVars, mutVars, dialogVars, appVars>>

(***************************************************************************)
(* One request served under two admin tokens that differ in division_id    *)
(* only, with bodies that may carry created_by and created_at              *)
(* (src/unnamed/part_006).                                                 *)
(***************************************************************************)
\* { ...a, key: val }
With(a, key, val) == [f \in DOMAIN a \cup {key} |-> IF f = key THEN val ELSE a[f]]

\* { created_by: admin.admin_id, ...agent }: the value the client sent stays
WithCreatorUnlessSent(agent, admin) ==
    IF "created_by" \in DOMAIN agent THEN agent
    ELSE With(agent, "created_by", admin.admin_id)

\* { ...agent, created_by: admin.admin_id }, lines 149-150 and 174-177
WithCreator(agent, admin) == With(agent, "created_by", admin.admin_id)

\* the column default of created_at for a row that brings none
WithDefaults(a) ==
    IF "created_at" \in DOMAIN a THEN a ELSE With(a, "created_at", Now)

\* line 211: const { created_at, created_by, panchayath, parent_agent,
\* children, ...updateData } = agent
UpdateData(agent) ==
    [f \in DOMAIN agent \ {"created_at", "created_by", "panchayath",
                           "parent_agent", "children"} |-> agent[f]]

\* the agent bodies: one agent under either mobile, as the forms send it or
\* with a created_by and a created_at of the client's choosing
TenancyBodies ==
    LET plain == [mobile : Mobiles, role : {"pro"}, panchayath_id : Panchayaths,
                  parent_agent_id : {NULL}, customer_count : {0},
                  responsible_panchayath_ids : {<<>>}, responsible_wards : {<<>>},
                  is_active : {TRUE}]
    IN  plain \cup {With(With(b, "created_by", 2), "created_at", 1) : b \in plain}

\* the agents array of a bulk_create body: one body under several mobiles
TenancyBodyLists ==
    UNION {{[k \in 1..n |-> [b EXCEPT !.mobile = m[k]]] :
               b \in {x \in TenancyBodies : x.mobile = "9000000001"},
               m \in [1..n -> Mobiles]} : n \in 1..MaxBulk}

ListRequests == [op : {"list"}]
CreateRequests == [op : {"create"}, agent : TenancyBodies]
BulkCreateRequests == [op : {"bulk_create"}, agents : TenancyBodyLists]
UpdateRequests == [op : {"update"}, id : AgentIds, agent : TenancyBodies]
DeleteRequests == [op : {"delete"}, id : AgentIds]

\* the tokens of the active admin, valid, of either division
DivisionTokens ==
    [kind : {"token"}, admin_id : {1}, division_id : Divisions, exp : {3},
     signature : {"expected"}]

\* serve, lines 88-257: the answer to a request and the table after it
serve(token, table, req, firstId, rule) ==
    LET denied == Unauthorized(token, table)
    IN  IF denied # <<>> THEN denied[1]
        ELSE LET admin == verifyAdmin(token).admin[1]
             IN  CASE req.op = "list" -> ServeGet(table)
                   [] req.op = "create" ->
                        ServeCreate(table, WithDefaults(WithCreator(req.agent, admin)),
                                    firstId)
                   [] req.op = "bulk_create" ->
                        ServeBulkCreate(table,
                            [k \in DOMAIN req.agents |->
                                WithDefaults(WithCreator(req.agents[k], admin))],
                            firstId)
                   [] req.op = "update" -> ServePut(table, req.id, UpdateData(req.agent))
                   [] req.op = "delete" -> ServeDelete(table, req.id, rule)

\* the rows a request asks to insert
Inserts(req) ==
    IF req.op = "create" THEN 1
    ELSE IF req.op = "bulk_create" THEN Len(req.agents) ELSE 0

\* the request is served under token, and the same request on the same
\* table under the token that differs in division_id
SendTwice(req, rule) ==
    \E token \in DivisionTokens : \E division \in Divisions \ {token.division_id} :
        LET other == [token EXCEPT !.division_id = division]
            first == serve(token, pennyekart_agents, req, nextId, rule)
            second == serve(other, pennyekart_agents, req, nextId, rule)
        IN  /\ first.status = 200 => nextId + Inserts(req) - 1 <= MaxAgents
            /\ pennyekart_agents' = first.table
            /\ nextId' = IF first.status = 200 THEN nextId + Inserts(req) ELSE nextId
            /\ lastCall' = Call(req.op, "", token, first)
            /\ twin' = [request |-> req, token |-> token, other |-> other,
                        status |-> second.status, error |-> second.error,
                        table |-> second.table]
            /\ UNCHANGED <<treeVars, helperVars, hookVars, mutVars, dialogVars,
                           pageVars, overlapVars, sessionVars>>

TwinGet == \E req \in ListRequests : SendTwice(req, "no_action")

TwinCreate == \E req \in CreateRequests : SendTwice(req, "no_action")

TwinBulkCreate == \E req \in BulkCreateRequests : SendTwice(req, "no_action")

TwinPut == \E req \in UpdateRequests : SendTwice(req, "no_action")

TwinDelete ==
    \E req \in DeleteRequests : \E rule \in OnDeleteRules : SendTwice(req, rule)

(***************************************************************************)
(* The role helpers and the submit defaulting on drawn inputs.             *)
(***************************************************************************)
\* onSubmitSingle builds agentData from the submitted values
ApplySingleDefaulting ==
    /\ values # <<>>
    /\ agentData = <<>>
    /\ agentData' = <<SingleDefaulting(values[1])>>
    /\ UNCHANGED <<values, agentDataAgain, roleResults, bulkValues, agentsToInsert,
                   treeVars, storeVars, hookVars, mutVars, dialogVars, appVars>>

\* the payload is submitted again as it is
ApplySingleDefaultingAgain ==
    /\ agentData # <<>>
    /\ agentDataAgain = <<>>
    /\ agentDataAgain' = <<SingleDefaulting(agentData[1])>>
    /\ UNCHANGED <<values, agentData, roleResults, bulkValues, agentsToInsert,
                   treeVars, storeVars, hookVars, mutVars, dialogVars, appVars>>

\* getParentRole and getChildRole on the role of the values, and on what
\* they return
CallRoleHelpers ==
    /\ values # <<>>
    /\ roleResults = <<>>
    /\ LET role == values[1].role
           parent == getParentRole(role)
           child == getChildRole(role)
       IN  roleResults' =
             <<[parent |-> parent,
                child |-> child,
                parentOfChild |-> IF child = NullRole THEN NullRole
                                  ELSE getParentRole(child),
                childOfParent |-> IF parent = NullRole THEN NullRole
                                  ELSE getChildRole(parent)]>>
    /\ UNCHANGED <<values, agentData, agentDataAgain, bulkValues, agentsToInsert,
                   treeVars, storeVars, hookVars, mutVars, dialogVars, appVars>>

\* the bulk form hands its validated values to onSubmitBulk, which builds
\* agentsToInsert
ApplyBulkDefaulting ==
    /\ bulkValues # <<>>
    /\ agentsToInsert = <<>>
    /\ agentsToInsert' = <<BulkDefaulting(bulkValues[1])>>
    /\ UNCHANGED <<values, agentData, agentDataAgain, roleResults, bulkValues,
                   treeVars, storeVars, hookVars, mutVars, dialogVars, appVars>>

(***************************************************************************)
(* usePennyekartAgents(filters), usePennyekartAgents.ts 48-105.  Text that *)
(* a search reads (name, mobile) is a sequence of characters.              *)
(***************************************************************************)
\* fetches one mounted hook issues
MaxFetches == 2

\* lower(c) as ILIKE applies it
Lower(c) == IF c = "A" THEN "a" ELSE c

LowerText(text) == [k \in DOMAIN text |-> Lower(text[k])]

\* text LIKE pattern: % matches any run of characters, _ any one character
RECURSIVE Like(_, _)
Like(text, pattern) ==
    IF pattern = <<>> THEN text = <<>>
    ELSE IF Head(pattern) = "%"
    THEN \/ Like(text, Tail(pattern))
         \/ text # <<>> /\ Like(Tail(text), pattern)
    ELSE /\ text # <<>>
         /\ Head(pattern) = "_" \/ Head(pattern) = Head(text)
         /\ Like(Tail(text), Tail(pattern))

\* column.ilike.%search%
ILikeContains(text, search) ==
    Like(LowerText(text), <<"%">> \o LowerText(search) \o <<"%">>)

\* the rows the hook reads: the columns the query filters and orders by, and
\* the two the tree is built from
SampleAgents ==
    {[id |-> 1, name |-> <<"A", "b">>, mobile |-> <<"9", "1">>,
      role |-> "team_leader", panchayath_id |-> "p1", ward |-> "N/A",
      parent_agent_id |-> NULL, responsible_panchayath_ids |-> <<"p2">>,
      is_active |-> TRUE],
     [id |-> 2, name |-> <<"b", "a">>, mobile |-> <<"9", "2">>,
      role |-> "coordinator", panchayath_id |-> "p2", ward |-> "1",
      parent_agent_id |-> 1, responsible_panchayath_ids |-> <<>>,
      is_active |-> TRUE],
     [id |-> 3, name |-> <<"b", "b">>, mobile |-> <<"8", "2">>,
      role |-> "pro", panchayath_id |-> "p1", ward |-> "1",
      parent_agent_id |-> 2, responsible_panchayath_ids |-> <<>>,
      is_active |-> TRUE]}

\* AgentFilters (32-37); an omitted filter is "", null or the empty text
FilterInputs ==
    [panchayath_id : {"", "p1", "p2"},
     ward : {"", "1"},
     role : {NullRole, "pro"},
     search : {<<>>, <<"a">>, <<"B">>, <<"_">>}]

\* handleFilterChange (page 140-145) sets one key, clearFilters (147-149) all
FilterChanges(f) ==
    {g \in FilterInputs :
        \/ g = [panchayath_id |-> "", ward |-> "", role |-> NullRole, search |-> <<>>]
        \/ \E key \in DOMAIN f : \A other \in DOMAIN f \ {key} : g[other] = f[other]}
    \ {f}

\* the order of the characters in an ORDER BY on text
CharOrder == <<"8", "9", "_", "a", "A", "b", "B">>

CharRank(c) == CHOOSE k \in DOMAIN CharOrder : CharOrder[k] = c

RECURSIVE TextBefore(_, _)
TextBefore(a, b) ==
    IF b = <<>> THEN FALSE
    ELSE IF a = <<>> THEN TRUE
    ELSE IF Head(a) = Head(b) THEN TextBefore(Tail(a), Tail(b))
    ELSE CharRank(Head(a)) < CharRank(Head(b))

\* .order("role").order("name"): role is the enum pennyekart_agent_role
RowBefore(a, b) ==
    LET ra == IndexOf(ROLE_HIERARCHY, a.role)
        rb == IndexOf(ROLE_HIERARCHY, b.role)
    IN  \/ ra < rb
        \/ ra = rb /\ TextBefore(a.name, b.name)
        \/ ra = rb /\ a.name = b.name /\ a.id < b.id

RECURSIVE Ordered(_)
Ordered(rows) ==
    IF rows = {} THEN <<>>
    ELSE LET first == CHOOSE r \in rows : \A o \in rows \ {r} : RowBefore(r, o)
         IN  <<first>> \o Ordered(rows \ {first})

\* a query that treats the search text as plain text
FetchQueryPlainSearch(table, f) ==
    Ordered({r \in table :
        /\ f.panchayath_id # "" =>
              \/ r.panchayath_id = f.panchayath_id
              \/ \E k \in DOMAIN r.responsible_panchayath_ids :
                    r.responsible_panchayath_ids[k] = f.panchayath_id
        /\ f.ward # "" => r.ward = f.ward
        /\ f.role # NullRole => r.role = f.role
        /\ f.search # <<>> =>
              \E text \in {r.name, r.mobile} :
              \E i \in 0..Len(text) : \E j \in i..Len(text) :
                  LowerText(SubSeq(text, i + 1, j)) = LowerText(f.search)})

\* the query fetchAgents builds, lines 59-82
FetchQuery(table, f) ==
    Ordered({r \in table :
        /\ f.panchayath_id # "" =>
              \/ r.panchayath_id = f.panchayath_id
              \/ \E k \in DOMAIN r.responsible_panchayath_ids :
                    r.responsible_panchayath_ids[k] = f.panchayath_id
        /\ f.ward # "" => r.ward = f.ward
        /\ f.role # NullRole => r.role = f.role
        /\ f.search # <<>> =>
              \/ ILikeContains(r.name, f.search)
              \/ ILikeContains(r.mobile, f.search)})

\* fetchAgents up to the await, lines 55-82
StartFetch(f) ==
    /\ issued < MaxFetches
    /\ issued' = issued + 1
    /\ inflight' = Append(inflight, f)
    /\ isLoading' = TRUE
    /\ error' = NoError

\* the filters change: fetchAgents is a new callback and the effect calls it
ChangeFilters ==
    \E f \in FilterChanges(filters) :
        /\ filters' = f
        /\ StartFetch(f)
        /\ UNCHANGED <<agents, hierarchyTree, settled, treeVars, storeVars, helperVars, mutVars, dialogVars, appVars>>

\* refetch() of the page (Retry button, onSuccess of the dialog)
Refetch ==
    /\ StartFetch(filters)
    /\ UNCHANGED <<filters, agents, hierarchyTree, settled, treeVars, storeVars, helperVars, mutVars, dialogVars, appVars>>

RemoveAt(seq, k) == SubSeq(seq, 1, k - 1) \o SubSeq(seq, k + 1, Len(seq))

\* a response arrives with data: lines 84-92 and finally
FetchSucceeds ==
    \E k \in DOMAIN inflight :
        LET fetched == FetchQuery(pennyekart_agents, inflight[k])
        IN  /\ agents' = fetched
            /\ hierarchyTree' = buildHierarchyTree(fetched)
            /\ isLoading' = FALSE
            /\ inflight' = RemoveAt(inflight, k)
            /\ settled' = "ok"
            /\ UNCHANGED <<filters, issued, error, treeVars, storeVars, helperVars, mutVars, dialogVars, appVars>>

\* a failure that also clears the list and the tree
FetchFailsClearing ==
    \E k \in DOMAIN inflight :
        /\ error' = "Failed to fetch agents"
        /\ isLoading' = FALSE
        /\ inflight' = RemoveAt(inflight, k)
        /\ settled' = "failed"
        /\ agents' = <<>>
        /\ hierarchyTree' = buildHierarchyTree(<<>>)
        /\ UNCHANGED <<filters, issued,
                       treeVars, storeVars, helperVars, mutVars, dialogVars, appVars>>

\* a response arrives with an error: throw, catch (93-94) and finally
FetchFails ==
    \E k \in DOMAIN inflight :
        /\ error' = "Failed to fetch agents"
        /\ isLoading' = FALSE
        /\ inflight' = RemoveAt(inflight, k)
        /\ settled' = "failed"
        /\ UNCHANGED <<filters, issued, agents, hierarchyTree,
                       treeVars, storeVars, helperVars, mutVars, dialogVars, appVars>>

(***************************************************************************)
(* useAgentMutations, usePennyekartAgents.ts 132-212, as the page and its   *)
(* dialog call it: one call at a time, and refetch() after a call that     *)
(* returned no error.                                                      *)
(***************************************************************************)
\* the payloads the dialog sends for the rows of the page, and the ids the
\* page passes: stored ones and one that is not stored
PageBodies ==
    [name : {<<"a">>},
     mobile : {<<"9", "1">>, <<"8">>},
     role : {"pro"},
     panchayath_id : {"p1"},
     ward : {"1"},
     parent_agent_id : {NULL, 2, 9},
     responsible_panchayath_ids : {<<>>},
     is_active : {TRUE}]

\* the agents of a bulk submit: one payload under several mobiles
PageBodyLists ==
    UNION {{[k \in 1..n |-> [b EXCEPT !.mobile = m[k]]] :
               b \in PageBodies,
               m \in [1..n -> {<<"9", "1">>, <<"8">>}]} :
           n \in 1..MaxBulk}

\* the agents of a bulk submit whose mobiles are followed into the table:
\* one payload without parent under several mobiles, one of them stored
\* already
BulkSubmits ==
    UNION {{[k \in 1..n |-> [b EXCEPT !.mobile = m[k]]] :
               b \in {x \in PageBodies : x.parent_agent_id = NULL},
               m \in [1..n -> {<<"9", "1">>, <<"8">>, <<"8", "8">>}]} :
           n \in 1..MaxBulk}

\* getAdminToken(): nothing stored, or the token the login stored for the
\* active admin, which may have expired since
ClientTokens ==
    {NoToken} \cup {t \in AdminTokens : t.admin_id = 1 /\ t.signature = "expected"}

PageIds == {1, 2, 3, 9}

\* the id the table gives the first row inserted on the page
FirstPageId == 4

\* what the awaits of fetch() and response.json() give (146-156)
NotSent == [kind |-> "not_sent", status |-> 0, error |-> NoError, count |-> 0]
NetworkError == [kind |-> "network", status |-> 0, error |-> NoError, count |-> 0]
NotJson == [kind |-> "not_json", status |-> 200, error |-> NoError, count |-> 0]
BadGateway == [kind |-> "http", status |-> 502, error |-> NoError, count |-> 0]
HttpResponse(resp, count) ==
    [kind |-> "http", status |-> resp.status, error |-> resp.error,
     count |-> IF resp.status = 200 THEN count ELSE 0]

\* the request reaches the endpoint and its answer the caller; the request
\* is lost; the answer is lost; a gateway answers in place of the endpoint,
\* with JSON that has no error field or with a body that is no JSON
Transport == {"delivered", "request_lost", "response_lost", "bad_gateway", "not_json"}

Served(transport) == transport \in {"delivered", "response_lost"}

Arrives(transport, resp, count) ==
    IF transport = "delivered" THEN HttpResponse(resp, count)
    ELSE IF transport = "bad_gateway" THEN BadGateway
    ELSE IF transport = "not_json" THEN NotJson
    ELSE NetworkError

\* serve, lines 93-108, then the handler of the method
Answer(token, table, served) ==
    IF Unauthorized(token, table) # <<>> THEN Unauthorized(token, table)[1] ELSE served

\* callEdgeFunction, lines 135-161: what it throws or returns
callEdgeFunction(resp) ==
    IF resp.kind = "not_sent"
    THEN [thrown |-> TRUE, message |-> "Not authenticated as admin", count |-> 0]
    ELSE IF resp.kind = "network"
    THEN [thrown |-> TRUE, message |-> "Failed to fetch", count |-> 0]
    ELSE IF resp.kind = "not_json"
    THEN [thrown |-> TRUE, message |-> "Unexpected token", count |-> 0]
    ELSE IF resp.status \notin 200..299
    THEN [thrown |-> TRUE,
          message |-> IF resp.error # NoError THEN resp.error ELSE "Request failed",
          count |-> 0]
    ELSE [thrown |-> FALSE, message |-> NoError, count |-> resp.count]

\* data: null, and result.data
NullData == "null"
SomeData == "data"

\* a wrapper without the catch: what callEdgeFunction throws reaches the caller
MutationResultNoCatch(op, outcome) ==
    IF outcome.thrown
    THEN [threw |-> TRUE, value |-> [error |-> outcome.message]]
    ELSE IF op = "delete"
    THEN [threw |-> FALSE, value |-> [error |-> NoError]]
    ELSE IF op = "bulk_create"
    THEN [threw |-> FALSE,
          value |-> [data |-> SomeData, count |-> outcome.count, error |-> NoError]]
    ELSE [threw |-> FALSE, value |-> [data |-> SomeData, error |-> NoError]]

\* try / catch / finally of createAgent (163-173), createBulkAgents
\* (175-185), updateAgent (187-197) and deleteAgent (199-209): what the
\* call gives its caller.  Everything thrown here is an Error.
MutationResult(op, outcome) ==
    IF op = "delete"
    THEN [threw |-> FALSE, value |-> [error |-> outcome.message]]
    ELSE IF op = "bulk_create"
    THEN [threw |-> FALSE,
          value |-> [data |-> IF outcome.thrown THEN NullData ELSE SomeData,
                     count |-> IF outcome.thrown THEN 0 ELSE outcome.count,
                     error |-> outcome.message]]
    ELSE [threw |-> FALSE,
          value |-> [data |-> IF outcome.thrown THEN NullData ELSE SomeData,
                     error |-> outcome.message]]

NotReturned == [threw |-> FALSE, value |-> [error |-> NoError]]

\* a mutation is called: setIsSubmitting(true), getAdminToken(), and with a
\* token the fetch, which the endpoint answers with resp
CallMutation(op, token, id, sent, resp, inserted) ==
    /\ mpc # "awaiting"
    /\ calls < MaxFetches - 1
    /\ calls' = calls + 1
    /\ mop' = op
    /\ mtarget' = id
    /\ msent' = sent
    /\ IF token = NoToken
       THEN /\ httpRequests' = 0
            /\ response' = NotSent
            /\ returned' = MutationResult(op, callEdgeFunction(NotSent))
            /\ mpc' = "returned"
            /\ isSubmitting' = FALSE
            /\ UNCHANGED <<pennyekart_agents, nextId>>
       ELSE \E transport \in Transport :
            /\ httpRequests' = 1
            /\ response' = Arrives(transport, resp, inserted)
            /\ returned' = NotReturned
            /\ mpc' = "awaiting"
            /\ isSubmitting' = TRUE
            /\ pennyekart_agents' = IF Served(transport) THEN resp.table
                                    ELSE pennyekart_agents
            /\ nextId' = IF Served(transport) /\ resp.status = 200
                          THEN nextId + inserted ELSE nextId
    /\ UNCHANGED <<lastCall, treeVars, helperVars, hookVars, dialogVars, appVars>>

createAgent ==
    \E token \in ClientTokens : \E agent \in PageBodies :
        CallMutation("create", token, NULL, <<>>,
                     Answer(token, pennyekart_agents,
                            ServeCreate(pennyekart_agents, agent, nextId)), 1)

createBulkAgents ==
    \E token \in ClientTokens : \E agentList \in PageBodyLists :
        CallMutation("bulk_create", token, NULL, <<>>,
                     Answer(token, pennyekart_agents,
                            ServeBulkCreate(pennyekart_agents, agentList, nextId)),
                     Len(agentList))

\* createBulkAgents with the mobiles of its agents kept in msent
createBulkAgentsFollowed ==
    \E token \in ClientTokens : \E agentList \in BulkSubmits :
        CallMutation("bulk_create", token, NULL,
                     [k \in DOMAIN agentList |-> agentList[k].mobile],
                     Answer(token, pennyekart_agents,
                            ServeBulkCreate(pennyekart_agents, agentList, nextId)),
                     Len(agentList))

updateAgent ==
    \E token \in ClientTokens : \E id \in PageIds : \E updates \in PageBodies :
        CallMutation("update", token, id, <<>>,
                     Answer(token, pennyekart_agents,
                            ServePut(pennyekart_agents, id, updates)), 0)

deleteAgent ==
    \E token \in ClientTokens : \E id \in PageIds : \E rule \in OnDeleteRules :
        CallMutation("delete", token, id, <<>>,
                     Answer(token, pennyekart_agents,
                            ServeDelete(pennyekart_agents, id, rule)), 0)

\* a wrapper that sends the request once more when it failed
MutationSettlesRetry ==
    /\ mpc = "awaiting"
    /\ IF callEdgeFunction(response).thrown /\ httpRequests < 2
       THEN /\ httpRequests' = httpRequests + 1
            /\ UNCHANGED <<mpc, returned, isSubmitting, hookVars>>
       ELSE LET result == MutationResult(mop, callEdgeFunction(response))
            IN  /\ returned' = result
                /\ mpc' = "returned"
                /\ isSubmitting' = FALSE
                /\ IF result.value.error = NoError
                   THEN /\ StartFetch(filters)
                        /\ UNCHANGED <<filters, agents, hierarchyTree, settled>>
                   ELSE UNCHANGED hookVars
    /\ UNCHANGED <<mop, mtarget, msent, calls, response, storeVars, treeVars, helperVars, dialogVars, appVars>>

\* the awaited fetch settles: the rest of callEdgeFunction, the return of
\* the mutation, and its caller's continuation, which calls refetch() when
\* no error came back (page 129-138, dialog onSuccess)
MutationSettles ==
    /\ mpc = "awaiting"
    /\ LET result == MutationResult(mop, callEdgeFunction(response))
       IN  /\ returned' = result
           /\ IF result.value.error = NoError
              THEN /\ StartFetch(filters)
                   /\ UNCHANGED <<filters, agents, hierarchyTree, settled>>
              ELSE UNCHANGED hookVars
    /\ mpc' = "returned"
    /\ isSubmitting' = FALSE
    /\ UNCHANGED <<mop, mtarget, msent, calls, httpRequests, response, storeVars, treeVars, helperVars,
                   dialogVars, appVars>>

(***************************************************************************)
(* useAgentMutations, usePennyekartAgents.ts 132-212, with calls that      *)
(* overlap: the page's delete button stays enabled while a delete is       *)
(* awaited, so a second call can start before the first has settled.       *)
(***************************************************************************)
MutationOps == {"create", "bulk_create", "update", "delete"}

\* what the await of callEdgeFunction can give a call
Outcomes ==
    {callEdgeFunction(resp) :
        resp \in {NotSent, NetworkError, NotJson, BadGateway,
                  HttpResponse([status |-> 200, error |-> NoError], 1),
                  HttpResponse([status |-> 400, error |-> "Invalid action"], 0),
                  HttpResponse([status |-> 500, error |-> InternalServerError], 0)}}

\* a mutation is called: setIsSubmitting(true), then await callEdgeFunction
StartCall ==
    \E op \in MutationOps :
        /\ started < MaxFetches + 1
        /\ started' = started + 1
        /\ pending' = Append(pending, op)
        /\ isSubmitting' = TRUE
        /\ UNCHANGED <<mpc, mop, mtarget, msent, calls, httpRequests, response, returned>>
        /\ UNCHANGED <<storeVars, treeVars, helperVars, hookVars, dialogVars,
                       pageVars, sessionVars, tenancyVars>>

\* the await of one call settles: return from try or catch, then finally
\* runs setIsSubmitting(false)
CallSettles ==
    \E k \in DOMAIN pending : \E outcome \in Outcomes :
        /\ pending' = RemoveAt(pending, k)
        /\ returned' = MutationResult(pending[k], outcome)
        /\ mop' = pending[k]
        /\ isSubmitting' = FALSE
        /\ UNCHANGED <<mpc, mtarget, msent, calls, httpRequests, response, started>>
        /\ UNCHANGED <<storeVars, treeVars, helperVars, hookVars, dialogVars,
                       pageVars, sessionVars, tenancyVars>>

(***************************************************************************)
(* BulkAgentFormDialog opened to add agents (AgentFormDialog.tsx 950-1420): *)
(* the role and panchayath the two forms watch, and the list of candidate  *)
(* parents its two effects load into one state.                            *)
(***************************************************************************)
\* the rows the dialog's queries read: the rows of the page, a team leader
\* of p1 who is inactive, and a group leader of p1
DialogAgents ==
    SampleAgents \cup
    {[id |-> 4, name |-> <<"a">>, mobile |-> <<"8">>,
      role |-> "team_leader", panchayath_id |-> "p1", ward |-> "N/A",
      parent_agent_id |-> NULL, responsible_panchayath_ids |-> <<>>,
      is_active |-> FALSE],
     [id |-> 5, name |-> <<"a", "b">>, mobile |-> <<"9">>,
      role |-> "group_leader", panchayath_id |-> "p1", ward |-> "1",
      parent_agent_id |-> 2, responsible_panchayath_ids |-> <<>>,
      is_active |-> TRUE]}

\* what the role and panchayath selects of a form can hold
DialogSelections == [role : Roles, panchayath_id : {"", "p1", "p2"}]

\* defaultValues and reset (973-998, 1138-1155) for handleAddAgent
DialogDefaults == [role |-> "pro", panchayath_id |-> ""]

\* the selections one change of a select leads to; a select once set is
\* not emptied again
SelectChanges(sel) ==
    {g \in DialogSelections :
        \/ g.role # sel.role /\ g.panchayath_id = sel.panchayath_id
        \/ /\ g.role = sel.role
           /\ g.panchayath_id # sel.panchayath_id
           /\ g.panchayath_id # ""}

\* the effect of lines 1068-1097 (single) and 1100-1120 (bulk) for a
\* selection: setPotentialParents([]) at once, or a query whose answer
\* comes later
RunParentEffect(sel) ==
    IF getParentRole(sel.role) = NullRole \/ sel.panchayath_id = ""
    THEN /\ potentialParents' = {}
         /\ UNCHANGED <<parentFetches, parentIssued>>
    ELSE /\ parentIssued < MaxFetches
         /\ parentIssued' = parentIssued + 1
         /\ parentFetches' = Append(parentFetches, sel)
         /\ UNCHANGED potentialParents

\* the active rows of table panchayaths (1015-1019): id and ward, the
\* number of wards as parseInt reads it (0: null or no number)
PanchayathRows == {[id |-> "p1", ward |-> 2], [id |-> "p2", ward |-> 0]}

\* Array.from({ length: wardCount }, (_, i) => String(i + 1))
WardList(wardCount) == [i \in 1..wardCount |-> i]

\* panchayaths.find(p => p.id === id) has a ward count above 0
HasWardCount(rows, id) == \E p \in rows : p.id = id /\ p.ward > 0

WardCountOf(rows, id) == (CHOOSE p \in rows : p.id = id).ward

\* the effect of lines 1032-1049 with agent null: what it leaves in
\* wardOptions, given what is there
SingleWardEffect(rows, id, shown) ==
    IF id # "" /\ rows # {} /\ HasWardCount(rows, id)
    THEN WardList(WardCountOf(rows, id))
    ELSE IF rows # {} /\ id = "" THEN <<>> ELSE shown

\* the effect of lines 1052-1065
BulkWardEffect(rows, id) ==
    IF id # "" /\ HasWardCount(rows, id) THEN WardList(WardCountOf(rows, id)) ELSE <<>>

\* the user changes the role or the panchayath of the single form
SelectSingle ==
    \E sel \in SelectChanges(singleSelected) :
        /\ activeTab = "single"
        \* the panchayath select lists the loaded rows (SelectItem per row)
        /\ sel.panchayath_id # singleSelected.panchayath_id => panchayaths # {}
        /\ singleSelected' = sel
        /\ RunParentEffect(sel)
        /\ wardOptions' =
              IF sel.panchayath_id # singleSelected.panchayath_id
              THEN SingleWardEffect(panchayaths, sel.panchayath_id, wardOptions)
              ELSE wardOptions
        /\ UNCHANGED <<activeTab, bulkSelected, panchayaths, storeVars, treeVars,
                       helperVars, hookVars, mutVars, appVars>>

\* the user changes the role or the panchayath of the bulk form
SelectBulk ==
    \E sel \in SelectChanges(bulkSelected) :
        /\ activeTab = "bulk"
        \* the panchayath select lists the loaded rows (SelectItem per row)
        /\ sel.panchayath_id # bulkSelected.panchayath_id => panchayaths # {}
        /\ bulkSelected' = sel
        /\ RunParentEffect(sel)
        /\ wardOptions' =
              IF sel.panchayath_id # bulkSelected.panchayath_id
              THEN BulkWardEffect(panchayaths, sel.panchayath_id)
              ELSE wardOptions
        /\ UNCHANGED <<activeTab, singleSelected, panchayaths, storeVars, treeVars,
                       helperVars, hookVars, mutVars, appVars>>

\* the answer of fetchPanchayaths arrives (1021): both ward effects run
\* again, the one of the single form first, and the bulk one sets last
PanchayathsArrive ==
    /\ panchayaths = {}
    /\ panchayaths' = PanchayathRows
    /\ wardOptions' = BulkWardEffect(panchayaths', bulkSelected.panchayath_id)
    /\ UNCHANGED <<activeTab, singleSelected, bulkSelected, potentialParents,
                   parentFetches, parentIssued, storeVars, treeVars, helperVars,
                   hookVars, mutVars, appVars>>

\* Tabs onValueChange (1341)
SwitchTab ==
    /\ activeTab' = IF activeTab = "single" THEN "bulk" ELSE "single"
    /\ UNCHANGED <<singleSelected, bulkSelected, potentialParents, parentFetches,
                   parentIssued, panchayaths, wardOptions, storeVars, treeVars, helperVars, hookVars, mutVars, appVars>>

\* the answer of a parent query arrives: setPotentialParents(data || [])
ParentsArrive ==
    \E k \in DOMAIN parentFetches :
        /\ potentialParents' =
              fetchParentAgents(pennyekart_agents, parentFetches[k].role,
                                parentFetches[k].panchayath_id)
        /\ parentFetches' = RemoveAt(parentFetches, k)
        /\ UNCHANGED <<activeTab, singleSelected, bulkSelected, parentIssued,
                       panchayaths, wardOptions, storeVars, treeVars, helperVars, hookVars, mutVars, appVars>>

(***************************************************************************)
(* PennyekartAgentHierarchy.tsx: the details panel of the selected agent   *)
(* and the handlers that open the form dialog (105-127).  The dialog is    *)
(* modal: while it is open the page behind it takes no click.              *)
(***************************************************************************)
NoHandler == [name |-> "none", agent |-> NULL]

Handled(name, agent) == [name |-> name, agent |-> agent.id]

\* AgentHierarchyTree onSelectAgent={setSelectedAgent} (311-315)
SelectAgent ==
    /\ ~ formDialogOpen
    /\ \E k \in DOMAIN agents :
          /\ selectedAgent' = agents[k]
          /\ lastHandler' = Handled("select", agents[k])
    /\ UNCHANGED <<formDialogOpen, editingAgent, defaultParentId, defaultRole>>
    /\ UNCHANGED <<storeVars, treeVars, helperVars, hookVars, mutVars, dialogVars,
                   overlapVars, sessionVars, tenancyVars>>

\* handleAddAgent, 105-110
handleAddAgent ==
    /\ ~ formDialogOpen
    /\ editingAgent' = NULL
    /\ defaultParentId' = NULL
    /\ defaultRole' = NullRole
    /\ formDialogOpen' = TRUE
    /\ lastHandler' = [name |-> "add", agent |-> NULL]
    /\ UNCHANGED selectedAgent
    /\ UNCHANGED <<storeVars, treeVars, helperVars, hookVars, mutVars, dialogVars,
                   overlapVars, sessionVars, tenancyVars>>

\* handleEditAgent(selectedAgent), 112-117
handleEditAgent ==
    /\ ~ formDialogOpen
    /\ selectedAgent.id # NULL
    /\ editingAgent' = selectedAgent.id
    /\ defaultParentId' = NULL
    /\ defaultRole' = NullRole
    /\ formDialogOpen' = TRUE
    /\ lastHandler' = Handled("edit", selectedAgent)
    /\ UNCHANGED selectedAgent
    /\ UNCHANGED <<storeVars, treeVars, helperVars, hookVars, mutVars, dialogVars,
                   overlapVars, sessionVars, tenancyVars>>

\* a handler that opens the dialog for every role, with the role the
\* hierarchy gives after wrapping around
handleAddChildAgentAnyRole ==
    /\ ~ formDialogOpen
    /\ selectedAgent.id # NULL
    /\ lastHandler' = Handled("addChild", selectedAgent)
    /\ editingAgent' = NULL
    /\ defaultParentId' = selectedAgent.id
    /\ defaultRole' = getChildRoleWrap(selectedAgent.role)
    /\ formDialogOpen' = TRUE
    /\ UNCHANGED selectedAgent
    /\ UNCHANGED <<storeVars, treeVars, helperVars, hookVars, mutVars, dialogVars,
                   overlapVars, sessionVars, tenancyVars>>

\* handleAddChildAgent(selectedAgent), 119-127
handleAddChildAgent ==
    /\ ~ formDialogOpen
    /\ selectedAgent.id # NULL
    /\ lastHandler' = Handled("addChild", selectedAgent)
    /\ LET childRole == getChildRole(selectedAgent.role)
       IN  IF childRole = NullRole
           THEN UNCHANGED <<formDialogOpen, editingAgent, defaultParentId, defaultRole>>
           ELSE /\ editingAgent' = NULL
                /\ defaultParentId' = selectedAgent.id
                /\ defaultRole' = childRole
                /\ formDialogOpen' = TRUE
    /\ UNCHANGED selectedAgent
    /\ UNCHANGED <<storeVars, treeVars, helperVars, hookVars, mutVars, dialogVars,
                   overlapVars, sessionVars, tenancyVars>>

\* onOpenChange={setFormDialogOpen} with false (345): the dialog is closed
CloseFormDialog ==
    /\ formDialogOpen
    /\ formDialogOpen' = FALSE
    /\ lastHandler' = [name |-> "close", agent |-> NULL]
    /\ UNCHANGED <<selectedAgent, editingAgent, defaultParentId, defaultRole>>
    /\ UNCHANGED <<storeVars, treeVars, helperVars, hookVars, mutVars, dialogVars,
                   overlapVars, sessionVars, tenancyVars>>

(***************************************************************************)
(* Specifications.                                                         *)
(***************************************************************************)
TreeIdle ==
    /\ agentsData = <<>>
    /\ agentMap = <<>>
    /\ rootAgents = <<>>
    /\ bpc = "idle"
    /\ bi = 1
    /\ iterations = 0

StoreEmpty ==
    /\ pennyekart_agents = {}
    /\ nextId = 1
    /\ lastCall = [op |-> "none", mobile |-> "", genuine |-> TRUE,
                   status |-> 0, error |-> NoError,
                   conflict |-> FALSE, stale |-> FALSE]

HelpersIdle ==
    /\ values = <<>>
    /\ agentData = <<>>
    /\ agentDataAgain = <<>>
    /\ roleResults = <<>>
    /\ bulkValues = <<>>
    /\ agentsToInsert = <<>>

\* no hook is mounted
HookIdle ==
    /\ filters = <<>>
    /\ inflight = <<>>
    /\ issued = 0
    /\ agents = <<>>
    /\ hierarchyTree = <<>>
    /\ isLoading = FALSE
    /\ error = NoError
    /\ settled = "none"

\* no mutation was called
MutationsIdle ==
    /\ mpc = "idle"
    /\ mop = "none"
    /\ mtarget = NULL
    /\ msent = <<>>
    /\ calls = 0
    /\ httpRequests = 0
    /\ response = NotSent
    /\ returned = NotReturned
    /\ isSubmitting = FALSE

\* the page as mounted: no agent selected, the form dialog closed (55-59)
PageIdle ==
    /\ selectedAgent = [id |-> NULL]
    /\ formDialogOpen = FALSE
    /\ editingAgent = NULL
    /\ defaultParentId = NULL
    /\ defaultRole = NullRole
    /\ lastHandler = NoHandler

\* no mutation call is awaiting its request
OverlapIdle ==
    /\ pending = <<>>
    /\ started = 0

\* nothing stored, nobody signed in
\* AdminData | null: null is [id |-> NULL]
NoAdminData == [id |-> NULL]

\* neither key is stored: getItem gives null for both
EmptyStorage == [elife_admin_token |-> NoToken, elife_admin_data |-> NoAdminData]

SessionIdle ==
    /\ localStorage = EmptyStorage
    /\ adminTokenState = NoToken
    /\ adminData = NoAdminData
    /\ refreshing = <<>>
    /\ lastAuth = "none"

\* no request was sent under two tokens
TenancyIdle ==
    twin = [request |-> [op |-> "none"], token |-> NoToken, other |-> NoToken,
            status |-> 0, error |-> NoError, table |-> {}]

AppIdle == PageIdle /\ OverlapIdle /\ SessionIdle /\ TenancyIdle

\* no dialog is open
DialogClosed ==
    /\ activeTab = "single"
    /\ singleSelected = DialogDefaults
    /\ bulkSelected = DialogDefaults
    /\ potentialParents = {}
    /\ parentFetches = <<>>
    /\ parentIssued = 0
    /\ panchayaths = {}
    /\ wardOptions = <<>>

\* The table starts empty and changes through the forms and the endpoint.
Init == StoreEmpty /\ TreeIdle /\ HelpersIdle /\ HookIdle /\ MutationsIdle /\ DialogClosed
        /\ AppIdle

\* The dialog opened by handleAddAgent: both forms hold their defaults, and
\* both effects have run for them and set the empty list.
InitDialog ==
    /\ pennyekart_agents = DialogAgents
    /\ nextId = 1
    /\ lastCall = [op |-> "none", mobile |-> "", genuine |-> TRUE,
                   status |-> 0, error |-> NoError,
                   conflict |-> FALSE, stale |-> FALSE]
    /\ TreeIdle
    /\ HelpersIdle
    /\ HookIdle
    /\ MutationsIdle
    /\ DialogClosed
    /\ AppIdle

NextDialog ==
    \/ SelectSingle
    \/ SelectBulk
    \/ SwitchTab
    \/ ParentsArrive
    \/ PanchayathsArrive

SpecDialog == InitDialog /\ [][NextDialog]_vars

\* The hook mounted on a table of agents: useState initial values (49-52) and
\* the fetch the effect issues on mount (100-102).
InitHook ==
    /\ pennyekart_agents = SampleAgents
    /\ nextId = 1
    /\ lastCall = [op |-> "none", mobile |-> "", genuine |-> TRUE,
                   status |-> 0, error |-> NoError,
                   conflict |-> FALSE, stale |-> FALSE]
    /\ filters \in FilterInputs
    /\ inflight = <<filters>>
    /\ issued = 1
    /\ agents = <<>>
    /\ hierarchyTree = buildHierarchyTree(<<>>)
    /\ isLoading = TRUE
    /\ error = NoError
    /\ settled = "none"
    /\ TreeIdle
    /\ HelpersIdle
    /\ MutationsIdle
    /\ DialogClosed
    /\ AppIdle

NextHook ==
    \/ ChangeFilters
    \/ Refetch
    \/ FetchSucceeds
    \/ FetchFails

SpecHook == InitHook /\ [][NextHook]_vars

\* The page PennyekartAgentHierarchy mounted on the same table: no filter is
\* set, the hook has issued its first fetch, no mutation was called.  The
\* filters are left as they are here; SpecHook is the hook under changes of
\* its filters.
InitPage ==
    /\ pennyekart_agents = SampleAgents
    /\ nextId = FirstPageId
    /\ lastCall = [op |-> "none", mobile |-> "", genuine |-> TRUE,
                   status |-> 0, error |-> NoError,
                   conflict |-> FALSE, stale |-> FALSE]
    /\ filters = [panchayath_id |-> "", ward |-> "", role |-> NullRole, search |-> <<>>]
    /\ inflight = <<filters>>
    /\ issued = 1
    /\ agents = <<>>
    /\ hierarchyTree = buildHierarchyTree(<<>>)
    /\ isLoading = TRUE
    /\ error = NoError
    /\ settled = "none"
    /\ TreeIdle
    /\ HelpersIdle
    /\ MutationsIdle
    /\ DialogClosed
    /\ AppIdle

\* The page shows the list a fetch gave for some filters; nothing is selected.
InitPageDialog ==
    /\ pennyekart_agents = DialogAgents
    /\ nextId = 1
    /\ lastCall = [op |-> "none", mobile |-> "", genuine |-> TRUE,
                   status |-> 0, error |-> NoError,
                   conflict |-> FALSE, stale |-> FALSE]
    /\ filters \in FilterInputs
    /\ inflight = <<>>
    /\ issued = 1
    /\ agents = FetchQuery(pennyekart_agents, filters)
    /\ hierarchyTree = buildHierarchyTree(agents)
    /\ isLoading = FALSE
    /\ error = NoError
    /\ settled = "ok"
    /\ TreeIdle
    /\ HelpersIdle
    /\ MutationsIdle
    /\ DialogClosed
    /\ AppIdle

NextPageDialog ==
    \/ SelectAgent
    \/ handleAddAgent
    \/ handleEditAgent
    \/ handleAddChildAgent
    \/ CloseFormDialog

SpecPageDialog == InitPageDialog /\ [][NextPageDialog]_vars

NextTenancy ==
    \/ TwinGet
    \/ TwinCreate
    \/ TwinBulkCreate
    \/ TwinPut
    \/ TwinDelete

SpecTenancy == Init /\ [][NextTenancy]_vars

NextOverlap == StartCall \/ CallSettles

SpecOverlap == Init /\ [][NextOverlap]_vars

(***************************************************************************)
(* AuthProvider (part_000 61-177): the admin session in React state and in *)
(* localStorage, and the mutations of useAgentMutations, which read the    *)
(* token from localStorage.                                                *)
(***************************************************************************)
\* the tokens the admin login hands to signInAsAdmin for the active admin;
\* one of them has expired
SessionTokens == {t \in AdminTokens : t.admin_id = 1 /\ t.signature = "expected"}

\* the AdminData of the admin a token names
SessionAdmin(token) == [id |-> token.admin_id, division_id |-> token.division_id]

\* getStoredAdminSession, lines 37-59: whether a session was found, and
\* what it leaves in localStorage
getStoredAdminSession(storage) ==
    IF storage.elife_admin_token = NoToken \/ storage.elife_admin_data = NoAdminData
    THEN [found |-> FALSE, storage |-> storage]
    ELSE IF storage.elife_admin_token.kind = "undecodable"
    THEN [found |-> FALSE, storage |-> EmptyStorage]
    ELSE IF storage.elife_admin_token.exp > Now
    THEN [found |-> TRUE, storage |-> storage]
    ELSE [found |-> FALSE, storage |-> EmptyStorage]

\* the body of AuthProvider runs getStoredAdminSession on every render
\* (line 64)
Render(storage) == getStoredAdminSession(storage).storage

\* getAdminToken, usePennyekartAgents.ts 39-46
getAdminToken(storage) == storage.elife_admin_token

\* signInAsAdmin, lines 157-163, the render its setState calls cause, and
\* the effect of lines 84-112, which runs when adminToken has changed
signInAsAdmin ==
    \E token \in SessionTokens :
        /\ Len(refreshing) < MaxFetches
        /\ adminTokenState' = token
        /\ adminData' = SessionAdmin(token)
        /\ localStorage' = Render([elife_admin_token |-> token,
                                   elife_admin_data |-> SessionAdmin(token)])
        /\ refreshing' = IF token # adminTokenState
                          THEN Append(refreshing, token) ELSE refreshing
        /\ lastAuth' = "signInAsAdmin"
        /\ UNCHANGED <<storeVars, treeVars, helperVars, hookVars, mutVars, dialogVars,
                       pageVars, overlapVars, tenancyVars>>

\* signOut, lines 165-177, and the render after it
signOut ==
    /\ IF adminTokenState # NoToken
       THEN /\ adminTokenState' = NoToken
            /\ adminData' = NoAdminData
            /\ localStorage' = EmptyStorage
       ELSE /\ localStorage' = Render(localStorage)
            /\ UNCHANGED <<adminTokenState, adminData>>
    /\ lastAuth' = "signOut"
    /\ UNCHANGED <<refreshing, storeVars, treeVars, helperVars, hookVars, mutVars,
                   dialogVars, pageVars, overlapVars, tenancyVars>>

\* the page is loaded again: AuthProvider mounts with the stored session
\* (lines 64-68) and its effect starts a refresh when there is a token; the
\* requests of the page before are gone
PageLoad ==
    /\ mpc # "awaiting"
    /\ LET stored == getStoredAdminSession(localStorage)
       IN  /\ localStorage' = stored.storage
           /\ adminTokenState' = IF stored.found THEN localStorage.elife_admin_token
                                  ELSE NoToken
           /\ adminData' = IF stored.found THEN localStorage.elife_admin_data
                            ELSE NoAdminData
           /\ refreshing' = IF stored.found THEN <<localStorage.elife_admin_token>>
                            ELSE <<>>
    /\ UNCHANGED <<lastAuth, storeVars, treeVars, helperVars, hookVars, mutVars,
                   dialogVars, pageVars, overlapVars, tenancyVars>>

\* the answer of an admin-auth refresh arrives (lines 93-104): with an
\* admin in it, setAdminData and setItem(ADMIN_DATA_KEY), then the render
RefreshArrives ==
    \E k \in DOMAIN refreshing : \E success \in BOOLEAN :
        /\ refreshing' = RemoveAt(refreshing, k)
        /\ IF success
           THEN /\ adminData' = SessionAdmin(refreshing[k])
                /\ localStorage' =
                      Render([localStorage EXCEPT
                                 !.elife_admin_data = SessionAdmin(refreshing[k])])
           ELSE UNCHANGED <<adminData, localStorage>>
        /\ UNCHANGED <<adminTokenState, lastAuth, storeVars, treeVars, helperVars,
                       hookVars, mutVars, dialogVars, pageVars, overlapVars,
                       tenancyVars>>

\* the four mutations, called with whatever getAdminToken() finds
StoredCreate ==
    \E agent \in PageBodies :
        CallMutation("create", getAdminToken(localStorage), NULL, <<>>,
                     Answer(getAdminToken(localStorage), pennyekart_agents,
                            ServeCreate(pennyekart_agents, agent, nextId)), 1)

StoredBulkCreate ==
    \E agentList \in PageBodyLists :
        CallMutation("bulk_create", getAdminToken(localStorage), NULL, <<>>,
                     Answer(getAdminToken(localStorage), pennyekart_agents,
                            ServeBulkCreate(pennyekart_agents, agentList, nextId)),
                     Len(agentList))

StoredUpdate ==
    \E id \in PageIds : \E updates \in PageBodies :
        CallMutation("update", getAdminToken(localStorage), id, <<>>,
                     Answer(getAdminToken(localStorage), pennyekart_agents,
                            ServePut(pennyekart_agents, id, updates)), 0)

StoredDelete ==
    \E id \in PageIds : \E rule \in OnDeleteRules :
        CallMutation("delete", getAdminToken(localStorage), id, <<>>,
                     Answer(getAdminToken(localStorage), pennyekart_agents,
                            ServeDelete(pennyekart_agents, id, rule)), 0)

\* the hierarchy page of a browser with nothing stored, its first fetch
\* answered
InitSession ==
    /\ pennyekart_agents = SampleAgents
    /\ nextId = FirstPageId
    /\ lastCall = [op |-> "none", mobile |-> "", genuine |-> TRUE,
                   status |-> 0, error |-> NoError,
                   conflict |-> FALSE, stale |-> FALSE]
    /\ filters = [panchayath_id |-> "", ward |-> "", role |-> NullRole, search |-> <<>>]
    /\ inflight = <<>>
    /\ issued = 1
    /\ agents = FetchQuery(pennyekart_agents, filters)
    /\ hierarchyTree = buildHierarchyTree(agents)
    /\ isLoading = FALSE
    /\ error = NoError
    /\ settled = "ok"
    /\ TreeIdle
    /\ HelpersIdle
    /\ MutationsIdle
    /\ DialogClosed
    /\ AppIdle

NextSession ==
    \/ signInAsAdmin
    \/ signOut
    \/ PageLoad
    \/ RefreshArrives
    \/ StoredCreate
    \/ StoredBulkCreate
    \/ StoredUpdate
    \/ StoredDelete
    \/ MutationSettles

SpecSession == InitSession /\ [][NextSession]_vars

NextPage ==
    \/ Refetch
    \/ FetchSucceeds
    \/ FetchFails
    \/ createAgent
    \/ createBulkAgents
    \/ updateAgent
    \/ deleteAgent
    \/ MutationSettles

SpecPage == InitPage /\ [][NextPage]_vars

\* the page with bulk submits only
NextBulk ==
    \/ createBulkAgentsFollowed
    \/ MutationSettles
    \/ FetchSucceeds
    \/ FetchFails

SpecBulk == InitPage /\ [][NextBulk]_vars

Next ==
    \/ SubmitSingleCreate
    \/ SubmitSingleUpdate
    \/ SubmitBulk
    \/ AgentFormCreate
    \/ AgentFormUpdate
    \/ DeleteAgent

Spec == Init /\ [][Next]_vars

\* The endpoint on its own, under requests with bodies of the caller's choice.
NextEndpoint ==
    \/ RequestGet
    \/ RequestCreate
    \/ RequestBulkCreate
    \/ RequestPut
    \/ RequestDelete

SpecEndpoint == Init /\ [][NextEndpoint]_vars

\* Every value set the single form or the bulk form can submit (handleSubmit
\* calls the handler only with values its schema accepts), then the pure
\* functions.
InitHelpers ==
    /\ \/ /\ values \in {<<v>> : v \in SingleValidValues}
          /\ bulkValues = <<>>
       \/ /\ values = <<>>
          /\ bulkValues \in {<<v>> : v \in BulkValidValues}
    /\ agentData = <<>>
    /\ agentDataAgain = <<>>
    /\ roleResults = <<>>
    /\ agentsToInsert = <<>>
    /\ StoreEmpty
    /\ TreeIdle
    /\ HookIdle
    /\ MutationsIdle
    /\ DialogClosed
    /\ AppIdle

NextHelpers ==
    \/ ApplySingleDefaulting
    \/ ApplySingleDefaultingAgain
    \/ CallRoleHelpers
    \/ ApplyBulkDefaulting

SpecHelpers == InitHelpers /\ [][NextHelpers]_vars

(***************************************************************************)
(* Specification of the builder: every input list, then the two passes.    *)
(***************************************************************************)
InitTree ==
    /\ agentsData \in TreeInputs
    /\ agentMap = <<>>
    /\ rootAgents = <<>>
    /\ bpc = "map"
    /\ bi = 1
    /\ iterations = 0
    /\ StoreEmpty
    /\ HelpersIdle
    /\ HookIdle
    /\ MutationsIdle
    /\ DialogClosed
    /\ AppIdle

NextTree == MapForEach \/ MapDone \/ TreeForEach \/ TreeReturn

SpecTree == InitTree /\ [][NextTree]_vars

\* The builder is synchronous code: once called it runs to its return.
SpecTreeFair == InitTree /\ [][NextTree]_vars /\ WF_vars(NextTree)

(***************************************************************************)
(* Properties of the builder.                                              *)
(***************************************************************************)
\* children of the node with this id in a built map
ChildrenOf(map, id) == map[MapIndex(map, id)].children

\* how often target occurs in the subtree below (and including) node id
RECURSIVE CountInSubtree(_, _, _, _)
CountInSubtree(map, id, target, fuel) ==
    IF fuel = 0 THEN 0
    ELSE (IF id = target THEN 1 ELSE 0)
         + SumSeq([k \in DOMAIN ChildrenOf(map, id) |->
                     CountInSubtree(map, ChildrenOf(map, id)[k], target, fuel - 1)])

\* how often target occurs in the forest: roots and all nested children
Occurrences(map, roots, target) ==
    SumSeq([k \in DOMAIN roots |->
              CountInSubtree(map, roots[k], target, Len(map) + 1)])

\* how often id occurs in the sequence s
CountSeq(s, id) == Cardinality({k \in DOMAIN s : s[k] = id})

InputHasCycle ==
    \E k \in DOMAIN agentsData :
        ChainIsCyclic(BuildMap(<<>>, agentsData), agentsData[k].id, Len(agentsData))

\* The step machine and the function computed at once agree (sanity).
StepsComputeBuildHierarchyTree ==
    bpc = "done" =>
        /\ agentMap = buildHierarchyTree(agentsData).map
        /\ rootAgents = buildHierarchyTree(agentsData).roots

\* C1: for every input list, every agent of the list appears exactly once in
\* the returned forest (roots and all nested children), also when a
\* parent_agent_id points to the agent itself or parent pointers form a cycle.
C1_EveryAgentExactlyOnce ==
    bpc = "done" =>
        \A k \in DOMAIN agentsData :
            Occurrences(agentMap, rootAgents, agentsData[k].id) = 1

\* What the code does give: exactly once for the agents whose parent chain
\* ends, and not at all for the agents on or below a cycle.
OnceUnlessOnCycle ==
    bpc = "done" =>
        \A k \in DOMAIN agentsData :
            Occurrences(agentMap, rootAgents, agentsData[k].id) =
                IF ChainIsCyclic(agentMap, agentsData[k].id, Len(agentMap))
                THEN 0 ELSE 1

\* C2: an agent is a root exactly when its parent_agent_id is null or matches
\* no id of the list; otherwise it is in the children list of the agent whose
\* id is its parent_agent_id and in no other list.  Removing an agent from
\* the list makes each of its direct children a root, and every remaining
\* node keeps its children list (less the removed agent), so its subtree.
C2_RootIffParentNullOrUnresolved ==
    bpc = "done" =>
        /\ \A k \in DOMAIN agentsData :
              LET a == agentsData[k]
                  unresolved == \/ a.parent_agent_id = NULL
                                \/ a.parent_agent_id \notin IdsOf(agentsData)
              IN  /\ CountSeq(rootAgents, a.id) = (IF unresolved THEN 1 ELSE 0)
                  /\ \A j \in DOMAIN agentMap :
                        CountSeq(agentMap[j].children, a.id) =
                            IF ~unresolved /\ agentMap[j].id = a.parent_agent_id
                            THEN 1 ELSE 0
        /\ \A x \in DOMAIN agentsData :
              LET rest == SelectSeq(agentsData, LAMBDA a : a.id # agentsData[x].id)
                  t    == buildHierarchyTree(rest)
              IN  \A k \in DOMAIN rest :
                    /\ rest[k].parent_agent_id = agentsData[x].id
                          => CountSeq(t.roots, rest[k].id) = 1
                    /\ ChildrenOf(t.map, rest[k].id) =
                          SelectSeq(ChildrenOf(agentMap, rest[k].id),
                                    LAMBDA c : c # agentsData[x].id)

\* C2 witness: an agent whose parent is not in the list was returned as a
\* root and carries a child of its own.
C2_Witness ==
    /\ bpc = "done"
    /\ \E j \in DOMAIN agentMap :
          /\ agentMap[j].parent_agent_id # NULL
          /\ agentMap[j].parent_agent_id \notin IdsOf(agentsData)
          /\ CountSeq(rootAgents, agentMap[j].id) = 1
          /\ agentMap[j].children # <<>>

\* C3: the builder terminates on every finite list, cyclic ones included,
\* after one callback per agent in each of its two passes.
C3_BuilderTerminates ==
    <>(bpc = "done" /\ iterations = 2 * Len(agentsData))

\* C3 witness: the builder returned on a list whose parent pointers hold a
\* cycle of two or more agents.
C3_Witness ==
    /\ bpc = "done"
    /\ InputHasCycle
    /\ \E k \in DOMAIN agentsData :
          /\ agentsData[k].parent_agent_id # agentsData[k].id
          /\ ChainIsCyclic(agentMap, agentsData[k].id, Len(agentMap))

(***************************************************************************)
(* Properties of the stored agents under the form dialogs.                 *)
(***************************************************************************)
\* C4: every stored agent that is not a team leader and whose parent_agent_id
\* is the id of a stored agent has a parent whose role is getParentRole of
\* its own role, after any sequence of creates, bulk creates, updates and
\* deletes made through the forms.
C4_ParentRoleOneLevelUp ==
    \A a \in pennyekart_agents :
        (a.role # "team_leader" /\ a.parent_agent_id \in StoredIds(pennyekart_agents))
            => RowOf(pennyekart_agents, a.parent_agent_id).role = getParentRole(a.role)

\* C5: for every stored agent, parent_agent_id is null exactly when its role is
\* team_leader, after any sequence of form submissions.
C5_ParentNullIffTeamLeader ==
    \A a \in pennyekart_agents :
        (a.parent_agent_id = NULL) <=> (a.role = "team_leader")

\* the half of C5 the submit handlers do enforce
TeamLeaderHasNoParent ==
    \A a \in pennyekart_agents : a.role = "team_leader" => a.parent_agent_id = NULL

\* C6: every stored agent has responsible_panchayath_ids non-empty only if it
\* is a team leader and responsible_wards non-empty only if it is a
\* coordinator, after any sequence of form submissions, role changes included.
C6_ResponsibilitiesMatchRole ==
    \A a \in pennyekart_agents :
        /\ a.responsible_panchayath_ids # <<>> => a.role = "team_leader"
        /\ a.responsible_wards # <<>> => a.role = "coordinator"

\* the half of C6 every submit handler enforces
PanchayathsOnlyForTeamLeader ==
    \A a \in pennyekart_agents :
        a.responsible_panchayath_ids # <<>> => a.role = "team_leader"

\* C7: every stored agent whose role is not pro has customer_count 0, and
\* every stored customer_count is an integer that is at least 0, after any
\* sequence of form submissions.
C7_CustomerCountOnlyForPro ==
    \A a \in pennyekart_agents :
        /\ a.role # "pro" => a.customer_count = 0
        /\ a.customer_count \in Nat

\* agents of a role other than pro are stored next to a pro that kept the
\* count typed for it
C7_Witness ==
    /\ \E a \in pennyekart_agents : a.role # "pro" /\ a.customer_count = 0
    /\ \E a \in pennyekart_agents : a.role = "pro" /\ a.customer_count > 0

(***************************************************************************)
(* Properties of the endpoint.                                             *)
(***************************************************************************)
MobileIsUnique ==
    \A a, b \in pennyekart_agents : a.mobile = b.mobile => a.id = b.id

\* C8: a create request whose mobile is the mobile of a stored agent is
\* answered with the error "Mobile number already exists" and leaves the table
\* as it was; and at no time do two stored agents have the same mobile.
C8_DuplicateMobileRejected ==
    /\ [] MobileIsUnique
    /\ [][(/\ lastCall'.op = "create"
           /\ \E r \in pennyekart_agents : r.mobile = lastCall'.mobile)
            => (/\ lastCall'.error = "Mobile number already exists"
                /\ pennyekart_agents' = pennyekart_agents)]_vars

\* a create was refused for the mobile of an agent that is stored
C8_Witness ==
    /\ lastCall.op = "create"
    /\ lastCall.error = "Mobile number already exists"
    /\ \E r \in pennyekart_agents : r.mobile = lastCall.mobile

(***************************************************************************)
(* Properties of the role helpers and of the submit defaulting.            *)
(***************************************************************************)
\* the role next to a role in the order team_leader, coordinator,
\* group_leader, pro, written out
RoleAbove ==
    [r \in Roles |->
        CASE r = "team_leader" -> NullRole
          [] r = "coordinator" -> "team_leader"
          [] r = "group_leader" -> "coordinator"
          [] r = "pro" -> "group_leader"]

RoleBelow ==
    [r \in Roles |->
        CASE r = "team_leader" -> "coordinator"
          [] r = "coordinator" -> "group_leader"
          [] r = "group_leader" -> "pro"
          [] r = "pro" -> NullRole]

\* C9: getParentRole(getChildRole(r)) = r for every role r other than
\* team_leader and pro; getParentRole(team_leader) and getChildRole(pro) are
\* null; otherwise each helper returns the neighbouring role of the order
\* team_leader, coordinator, group_leader, pro.
C9_RoleHelpersRoundTrip ==
    roleResults # <<>> =>
        LET r == values[1].role
            res == roleResults[1]
        IN  /\ r \notin {"team_leader", "pro"} => res.parentOfChild = r
            /\ r = "team_leader" => res.parent = NullRole
            /\ r = "pro" => res.child = NullRole
            /\ res.parent = RoleAbove[r]
            /\ res.child = RoleBelow[r]

C9_Witness ==
    /\ roleResults # <<>>
    /\ values[1].role = "group_leader"
    /\ roleResults[1].child = "pro"
    /\ roleResults[1].parentOfChild = "group_leader"

\* C10: applying the defaulting of onSubmitSingle to the payload it produced
\* gives that payload again, for every role and every field combination.
C10_DefaultingIdempotent ==
    agentDataAgain # <<>> => agentDataAgain = agentData

\* a team leader submitted with a parent, a customer count and a blank ward,
\* and a coordinator submitted with wards, both defaulted twice
C10_Witness ==
    /\ agentDataAgain # <<>>
    /\ \/ /\ values[1].role = "team_leader"
          /\ values[1].parent_agent_id # NULL
          /\ values[1].customer_count > 0
          /\ values[1].ward = ""
          /\ agentData[1].ward = "N/A"
       \/ /\ values[1].role = "coordinator"
          /\ values[1].responsible_wards # <<>>

\* C11: a submission with role team_leader, from the single form or the bulk
\* form, sends a payload with parent_agent_id null, customer_count 0 and no
\* responsible_wards, and with ward "N/A" where the ward submitted is blank,
\* whatever was entered in those fields.
C11_TeamLeaderPayload ==
    /\ (agentData # <<>> /\ values[1].role = "team_leader") =>
          /\ agentData[1].parent_agent_id = NULL
          /\ agentData[1].customer_count = 0
          /\ agentData[1].responsible_wards = <<>>
          /\ values[1].ward = "" => agentData[1].ward = "N/A"
    /\ (agentsToInsert # <<>> /\ bulkValues[1].role = "team_leader") =>
          \A k \in DOMAIN agentsToInsert[1] :
              /\ agentsToInsert[1][k].parent_agent_id = NULL
              /\ agentsToInsert[1][k].customer_count = 0
              /\ agentsToInsert[1][k].responsible_wards = <<>>
              /\ bulkValues[1].agents[k].ward = "" => agentsToInsert[1][k].ward = "N/A"

\* a team leader sent from the single form with a parent, a count, wards and
\* a blank ward entered
C11_Witness ==
    /\ agentData # <<>>
    /\ values[1].role = "team_leader"
    /\ values[1].parent_agent_id # NULL
    /\ values[1].customer_count > 0
    /\ values[1].responsible_wards # <<>>
    /\ values[1].ward = ""

\* team leaders sent from the bulk form with a parent, counts and wards entered
C11_WitnessBulk ==
    /\ agentsToInsert # <<>>
    /\ bulkValues[1].role = "team_leader"
    /\ bulkValues[1].parent_agent_id # NULL
    /\ bulkValues[1].responsible_wards # <<>>
    /\ Len(bulkValues[1].agents) > 1
    /\ \A k \in DOMAIN bulkValues[1].agents : bulkValues[1].agents[k].customer_count > 0

\* C12: a request whose x-admin-token is missing, expired, not validly signed,
\* or names an admin that does not exist or is inactive is answered with
\* status 401 and leaves the agent table as it was, whatever its method.
C12_OnlyGenuineTokensPass ==
    [][(lastCall' # lastCall /\ ~ lastCall'.genuine)
        => (lastCall'.status = 401 /\ pennyekart_agents' = pennyekart_agents)]_vars

(***************************************************************************)
(* Properties of the hook usePennyekartAgents.                             *)
(***************************************************************************)
\* C13: once every fetch in flight has completed, none of them with an error,
\* agents and hierarchyTree hold the result of the fetch issued for the
\* filters of the last render, in whatever order the responses arrived.
C13_LatestFiltersWin ==
    (inflight = <<>> /\ error = NoError) =>
        /\ agents = FetchQuery(pennyekart_agents, filters)
        /\ hierarchyTree = buildHierarchyTree(FetchQuery(pennyekart_agents, filters))

\* what does hold: the state is the result of the response that came last
AgentsAreSomeFetchResult ==
    \/ agents = <<>>
    \/ \E f \in FilterInputs : agents = FetchQuery(pennyekart_agents, f)

\* ids found dist levels below the node id of a built map
RECURSIVE AtDepth(_, _, _)
AtDepth(map, id, dist) ==
    IF dist = 0 THEN {id}
    ELSE UNION {AtDepth(map, ChildrenOf(map, id)[k], dist - 1) :
                    k \in DOMAIN ChildrenOf(map, id)}

\* the agent reached from id by following parent_agent_id the given number
\* of times inside the list; NULL when a step does not resolve in the list
RECURSIVE ParentSteps(_, _, _)
ParentSteps(list, id, steps) ==
    IF id = NULL \/ id \notin IdsOf(list) THEN NULL
    ELSE IF steps = 0 THEN id
    ELSE ParentSteps(list,
                     list[CHOOSE k \in DOMAIN list : list[k].id = id].parent_agent_id,
                     steps - 1)

\* C14: for an input list whose parent pointers are acyclic, an agent X is
\* found k levels below a returned root R exactly when k parent steps from
\* X, each resolving within the input, reach R.
C14_DepthIsParentChainLength ==
    (bpc = "done" /\ ~InputHasCycle) =>
        \A r \in DOMAIN rootAgents :
            \A x \in IdsOf(agentsData) :
                \A k \in 0..Len(agentsData) :
                    (x \in AtDepth(agentMap, rootAgents[r], k))
                        <=> (ParentSteps(agentsData, x, k) = rootAgents[r])

\* C14 witness: the chain 1 <- 2 <- 3 was built into one root 1 whose only
\* child is 2 whose only child is 3.
C14_Witness ==
    /\ bpc = "done"
    /\ [k \in DOMAIN agentsData |->
          <<agentsData[k].id, agentsData[k].parent_agent_id>>]
            = <<(<<1, NULL>>), (<<2, 1>>), (<<3, 2>>)>>
    /\ rootAgents = <<1>>
    /\ ChildrenOf(agentMap, 1) = <<2>>
    /\ ChildrenOf(agentMap, 2) = <<3>>
    /\ ChildrenOf(agentMap, 3) = <<>>

\* position of the agent with this id in the input list
PositionIn(list, id) == CHOOSE k \in DOMAIN list : list[k].id = id

\* the ids of s are in the relative order they have in the input list
InInputOrder(list, s) ==
    \A j, k \in DOMAIN s :
        j < k => PositionIn(list, s[j]) < PositionIn(list, s[k])

\* C15: the returned roots are in the same relative order as in the input
\* list, and so are the children of every parent.
C15_InputOrderPreserved ==
    bpc = "done" =>
        /\ InInputOrder(agentsData, rootAgents)
        /\ \A j \in DOMAIN agentMap :
              InInputOrder(agentsData, agentMap[j].children)

\* C15 witness: a parent listed after its two children, which were listed
\* in descending id order, carries them in that order.
C15_Witness ==
    /\ bpc = "done"
    /\ \E j \in DOMAIN agentMap :
          /\ Len(agentMap[j].children) = 2
          /\ agentMap[j].children[1] > agentMap[j].children[2]
          /\ PositionIn(agentsData, agentMap[j].id) = Len(agentsData)

\* C15, roots: two roots listed in descending id order were returned in
\* that order.
C15_WitnessRoots ==
    /\ bpc = "done"
    /\ Len(rootAgents) >= 2
    /\ rootAgents[1] > rootAgents[2]

\* C16: the builder leaves its input unchanged: every node is an object of
\* its own, no step changes a record of the input list, and when the first
\* pass is over every node has an empty children list whatever children the
\* input records carried.
C16_InputUnchanged ==
    [][/\ agentsData' = agentsData
       /\ \A j \in DOMAIN agentMap' : agentMap'[j].aliasOf = NULL
       /\ (bpc = "map" /\ bpc' = "tree") =>
              \A j \in DOMAIN agentMap' : agentMap'[j].children = <<>>]_vars

\* C16 witness: the builder returned on a list whose records carried a
\* children list from an earlier build; a node got a child and another node
\* has none, and the records still carry what they carried.
C16_Witness ==
    /\ bpc = "done"
    /\ agentsData # <<>>
    /\ \A k \in DOMAIN agentsData : agentsData[k].children = StaleChildren
    /\ \E j \in DOMAIN agentMap :
          agentMap[j].children \notin {<<>>, StaleChildren}
    /\ \E j \in DOMAIN agentMap : agentMap[j].children = <<>>

(***************************************************************************)
(* Properties of the mutations and the fetch on the page.                  *)
(***************************************************************************)
\* the last mutation call failed: no request was sent, no answer came, the
\* answer was no JSON, or its status was outside 200-299
CallFailed ==
    response.kind # "http" \/ response.status \notin 200..299

\* a fetchAgents call that ends, in success or failure, issues no further
\* query, and the hook's error is set by the end of one such call only
FetchNotRetried ==
    (\/ Len(inflight') < Len(inflight)
     \/ error' # error /\ error' # NoError)
        => (issued' = issued /\ Len(inflight') = Len(inflight) - 1)

\* a mutation call made at most one request and, once it has returned,
\* threw nothing and gave an error string exactly when it failed
OneRequestOneError ==
    /\ httpRequests <= 1
    /\ mpc = "returned" =>
          /\ ~ returned.threw
          /\ CallFailed <=> returned.value.error # NoError

\* C17: no operation is retried.  Each call of createAgent,
\* createBulkAgents, updateAgent or deleteAgent issues at most one HTTP
\* request, never throws to its caller, and on failure returns one non-null
\* error string; createAgent, createBulkAgents and updateAgent return
\* data null with it, deleteAgent returns a result that has no data field.
\* A fetchAgents call that fails issued one query and sets error once.
C17_NoRetries ==
    /\ [](/\ OneRequestOneError
          /\ (mpc = "returned" /\ CallFailed) =>
                IF mop = "delete"
                THEN "data" \notin DOMAIN returned.value
                ELSE returned.value.data = NullData)
    /\ [][FetchNotRetried]_vars

\* C17 as stated: on failure every one of the four mutations returns data
\* null with its error string.
C17_FailureReturnsDataNull ==
    /\ [](/\ OneRequestOneError
          /\ (mpc = "returned" /\ CallFailed) =>
                /\ "data" \in DOMAIN returned.value
                /\ returned.value.data = NullData)
    /\ [][FetchNotRetried]_vars

\* C17 witness: the first fetch failed and set error, and a mutation that
\* sent its one request and was refused has returned.
C17_Witness ==
    /\ error # NoError
    /\ inflight = <<>>
    /\ mpc = "returned"
    /\ httpRequests = 1
    /\ response.kind = "http"
    /\ response.status = 401
    /\ returned.value.error = "Unauthorized - Invalid admin token"

\* the rows whose parent_agent_id names no stored row
Orphans(table) ==
    {r \in table : r.parent_agent_id # NULL /\ r.parent_agent_id \notin StoredIds(table)}

\* this step is a deleteAgent call whose request reached the endpoint with a
\* token it accepts and whose answer reached the caller
DeleteAnswered ==
    /\ calls' = calls + 1
    /\ mop' = "delete"
    /\ response'.kind = "http"
    /\ response'.status \notin {401, 502}

\* deleteAgent returned no error and the fetches issued since have ended
\* without error
DeletedAndRefetched ==
    /\ mpc = "returned"
    /\ mop = "delete"
    /\ returned.value.error = NoError
    /\ inflight = <<>>
    /\ error = NoError

\* C18: deleting an agent removes exactly that agent's row and nothing
\* else changes, so the rows of its children stay with their parent_agent_id
\* as it was; and in the hierarchy built after the next fetch every row
\* whose parent is no longer stored is a root that carries its own subtree.
C18_DeleteRemovesOneRowOnly ==
    /\ [][DeleteAnswered =>
            /\ response'.status = 200
            /\ pennyekart_agents' = {r \in pennyekart_agents : r.id # mtarget'}]_vars
    /\ [](DeletedAndRefetched =>
            /\ hierarchyTree = buildHierarchyTree(FetchQuery(pennyekart_agents, filters))
            /\ \A r \in Orphans(pennyekart_agents) :
                  /\ CountSeq(hierarchyTree.roots, r.id) = 1
                  /\ \A c \in pennyekart_agents :
                        c.parent_agent_id = r.id =>
                            CountSeq(ChildrenOf(hierarchyTree.map, r.id), c.id) = 1)

\* under the foreign key no stored row ever names a parent that is not stored
NoDanglingParent == Orphans(pennyekart_agents) = {}

\* C19: a fetch returns exactly the stored agents that satisfy every
\* supplied filter at once: home panchayath or responsible panchayaths, ward,
\* role, and name or mobile containing the search text whatever its case; an
\* omitted filter restricts nothing.  Stated for the fetch of the mount,
\* which no other fetch can overtake.
C19_FetchReturnsExactlyMatching ==
    (issued = 1 /\ inflight = <<>> /\ error = NoError) =>
        agents = FetchQueryPlainSearch(pennyekart_agents, filters)

\* the same for every search text in which no character is a LIKE wildcard
FetchMatchesWithoutWildcards ==
    (issued = 1 /\ inflight = <<>> /\ error = NoError
        /\ \A k \in DOMAIN filters.search : filters.search[k] \notin {"_", "%"}) =>
        agents = FetchQueryPlainSearch(pennyekart_agents, filters)

(***************************************************************************)
(* Properties of the candidate parents the dialog offers.                  *)
(***************************************************************************)
\* the stored agents one level above the role, of that panchayath, active
CandidateParents(table, role, panchayath) ==
    IF role = "team_leader" \/ panchayath = ""
    THEN {}
    ELSE {a \in table : /\ a.role = getParentRole(role)
                        /\ a.panchayath_id = panchayath
                        /\ a.is_active = TRUE}

\* the role and panchayath selected in the form that is shown
ShownSelection == IF activeTab = "single" THEN singleSelected ELSE bulkSelected

\* C20: once the queries have answered, the list the shown form offers
\* under Reports To is exactly the stored agents with role =
\* getParentRole(selected role), the selected panchayath as panchayath_id
\* and is_active true; it is empty for team_leader or no panchayath.
C20_CandidatesMatchSelection ==
    parentFetches = <<>> =>
        potentialParents =
            CandidateParents(pennyekart_agents, ShownSelection.role,
                             ShownSelection.panchayath_id)

\* each query by itself answers with the candidates of the role and
\* panchayath it was made for
ParentQueryMatchesItsSelection ==
    \A sel \in DialogSelections :
        fetchParentAgents(pennyekart_agents, sel.role, sel.panchayath_id) =
            CandidateParents(pennyekart_agents, sel.role, sel.panchayath_id)

(***************************************************************************)
(* Properties of the endpoint's answers to failed statements.              *)
(***************************************************************************)
FriendlyMessages ==
    {"Mobile number already exists", "One or more mobile numbers already exist"}

ConflictAnsweredFriendly ==
    /\ lastCall'.status = 400
    /\ lastCall'.error \in FriendlyMessages
    /\ pennyekart_agents' = pennyekart_agents

\* C21: a create, bulk_create or update whose mobile is held by another
\* stored agent (or twice by the request itself) is answered with status 400
\* and one of the two duplicate-mobile messages, and leaves the table as it
\* was.
C21_DuplicateMobileFriendly400 ==
    [][lastCall'.conflict => ConflictAnsweredFriendly]_vars

\* the same for create and bulk_create only
InsertConflictAnsweredFriendly ==
    [][(lastCall'.conflict /\ lastCall'.op \in {"create", "bulk_create"})
        => ConflictAnsweredFriendly]_vars

\* an update met a duplicate mobile: it is answered 500 and changes nothing
UpdateConflictAnswered500 ==
    [][(lastCall'.conflict /\ lastCall'.op = "update")
        => (/\ lastCall'.status = 500
            /\ lastCall'.error = InternalServerError
            /\ pennyekart_agents' = pennyekart_agents)]_vars

StaleAnsweredWithError ==
    /\ lastCall'.status >= 400
    /\ lastCall'.error # NoError
    /\ pennyekart_agents' = pennyekart_agents

\* C22: an update or a delete addressed to an id that no stored agent has is
\* answered with an error status and an error message and leaves the table
\* as it was; it is never answered as a success.
C22_StaleIdIsAnError ==
    [][lastCall'.stale => StaleAnsweredWithError]_vars

\* the same for update only
StaleUpdateIsAnError ==
    [][(lastCall'.stale /\ lastCall'.op = "update") => StaleAnsweredWithError]_vars

\* a delete of an id that no row has is answered 200 and changes nothing
StaleDeleteAnswered200 ==
    [][(lastCall'.stale /\ lastCall'.op = "delete")
        => (/\ lastCall'.status = 200
            /\ lastCall'.error = NoError
            /\ pennyekart_agents' = pennyekart_agents)]_vars

(***************************************************************************)
(* Properties of bulk_create as the client sees it.                        *)
(***************************************************************************)
MobilesOf(sent) == {sent[k] : k \in DOMAIN sent}

\* the step in which createBulkAgents sends its request
BulkCallStep ==
    /\ calls' = calls + 1
    /\ mop' = "bulk_create"
    /\ mpc' = "awaiting"

\* the request stored every agent submitted, or none
AllOrNoneStored ==
    LET new == pennyekart_agents' \ pennyekart_agents
    IN  \/ pennyekart_agents' = pennyekart_agents
        \/ /\ pennyekart_agents \subseteq pennyekart_agents'
           /\ Cardinality(new) = Len(msent')
           /\ {r.mobile : r \in new} = MobilesOf(msent')

\* C23: bulk_create is one batched insert.  A request stores every submitted
\* agent or none; an answer that arrives with status 200 carries
\* count = the number of agents submitted and all of them are stored; an
\* answer that reports a failed insert leaves the table as it was, and the
\* client then returns count 0 with an error (and count = the number
\* submitted when it returns no error).
C23_BulkCreateAllOrNothing ==
    /\ [][BulkCallStep =>
            /\ AllOrNoneStored
            /\ (response'.kind = "http" /\ response'.status = 200) =>
                  /\ response'.count = Len(msent')
                  /\ \A k \in DOMAIN msent' :
                        \E r \in pennyekart_agents' \ pennyekart_agents :
                            r.mobile = msent'[k]
            /\ (response'.kind = "http" /\ response'.status \in {400, 500}) =>
                  pennyekart_agents' = pennyekart_agents]_vars
    /\ []((mop = "bulk_create" /\ mpc = "returned") =>
            /\ returned.value.error = NoError =>
                  /\ returned.value.count = Len(msent)
                  /\ returned.value.data = SomeData
            /\ returned.value.error # NoError =>
                  /\ returned.value.count = 0
                  /\ returned.value.data = NullData)

\* C23 witness: two agents were submitted, one under the mobile of a stored
\* agent and one under a new mobile; the insert was refused, neither is
\* stored under a new id, and the client returned count 0 with the error.
C23_Witness ==
    /\ mop = "bulk_create"
    /\ mpc = "returned"
    /\ Len(msent) = 2
    /\ \E r \in SampleAgents : r.mobile = msent[1]
    /\ ~ \E r \in pennyekart_agents : r.mobile = msent[2]
    /\ pennyekart_agents = SampleAgents
    /\ returned.value.count = 0
    /\ returned.value.error = "One or more mobile numbers already exist"

\* two agents were submitted and stored, and the client returned count 2
C23_WitnessStored ==
    /\ mop = "bulk_create"
    /\ mpc = "returned"
    /\ Len(msent) = 2
    /\ returned.value.count = 2
    /\ returned.value.error = NoError
    /\ Cardinality(pennyekart_agents \ SampleAgents) = 2

(***************************************************************************)
(* Properties of the page's add-child action.                              *)
(***************************************************************************)
\* the step is a call of handleAddChildAgent
AddChildStep == lastHandler' # lastHandler /\ lastHandler'.name = "addChild"

\* C24: add child on an agent whose role has no child role (pro) changes
\* nothing: the form dialog stays closed and editingAgent, defaultParentId
\* and defaultRole keep their values; on an agent of any other role it opens
\* the dialog with no agent being edited, defaultParentId = the agent's id
\* and defaultRole = the role one level below the agent's role.
C24_AddChildOnProIsNoOp ==
    [][AddChildStep =>
          IF selectedAgent.role = "pro"
          THEN /\ formDialogOpen' = FALSE
               /\ UNCHANGED <<editingAgent, defaultParentId, defaultRole>>
          ELSE /\ formDialogOpen' = TRUE
               /\ editingAgent' = NULL
               /\ defaultParentId' = selectedAgent.id
               /\ defaultRole' = RoleBelow[selectedAgent.role]]_vars

\* C24 witness: a dialog was opened for a child of agent 1 and closed, then
\* add child was called on a pro: the dialog is closed and the defaults are
\* those of the earlier call.
C24_Witness ==
    /\ lastHandler.name = "addChild"
    /\ selectedAgent.id # NULL
    /\ selectedAgent.role = "pro"
    /\ lastHandler.agent = selectedAgent.id
    /\ ~ formDialogOpen
    /\ defaultParentId = 1
    /\ defaultRole = "coordinator"

(***************************************************************************)
(* Properties of the endpoint towards admins of different divisions.       *)
(***************************************************************************)
\* isPennyekartAdmin and the gate of the page, PennyekartAgentHierarchy.tsx
\* 96-102, for an admin whose adminData names one division and no more
PageAdmits(isSuperAdmin, data) ==
    \/ isSuperAdmin
    \/ data.division_id = PENNYEKART_DIVISION_ID
    \/ data.access_all_divisions
    \/ \E k \in DOMAIN data.additional_division_ids :
          data.additional_division_ids[k] = PENNYEKART_DIVISION_ID

AdminDataOf(token) ==
    [division_id |-> token.division_id, access_all_divisions |-> FALSE,
     additional_division_ids |-> <<>>]

\* C25: the endpoint performs no division check.  A request served under
\* two tokens of the same active admin that differ in division_id only gets
\* the same status and error and leaves the same table.
C25_DivisionNotChecked ==
    /\ twin.status = lastCall.status
    /\ twin.error = lastCall.error
    /\ twin.request.op # "none" => twin.table = pennyekart_agents

\* C25 witness: a create was answered 200 and stored its row under the token
\* of a division the page gate refuses, as under the Pennyekart token.
C25_Witness ==
    /\ twin.request.op = "create"
    /\ lastCall.status = 200
    /\ twin.status = 200
    /\ twin.token.division_id # twin.other.division_id
    /\ ~ PageAdmits(FALSE, AdminDataOf(twin.token))
    /\ PageAdmits(FALSE, AdminDataOf(twin.other))
    /\ \E r \in pennyekart_agents : r.mobile = twin.request.agent.mobile

(***************************************************************************)
(* Properties of created_by and created_at.                                *)
(***************************************************************************)
InsertedRows == pennyekart_agents' \ pennyekart_agents

\* the rows a create or bulk_create stored carry the admin of the token
CreatorIsTokenAdmin ==
    twin'.request.op \in {"create", "bulk_create"} =>
        \A r \in InsertedRows : r.created_by = twin'.token.admin_id

\* an update leaves created_by and created_at of every stored row
UpdateKeepsCreation ==
    twin'.request.op = "update" =>
        \A old \in pennyekart_agents : \E new \in pennyekart_agents' :
            /\ new.id = old.id
            /\ new.created_by = old.created_by
            /\ new.created_at = old.created_at

\* C30: every row inserted by create or bulk_create has created_by = the
\* admin_id of the token the request came with, whatever created_by the body
\* carried, and no update changes the created_by or the created_at of a row.
C30_CreatorFixedByEndpoint ==
    [][CreatorIsTokenAdmin /\ UpdateKeepsCreation]_vars

\* C30 witness: a row stored for a body that carried created_by = 2 has
\* created_by = 1, the admin of the token; an update whose body carries
\* created_by = 2 and created_at = 1 was answered 200 and changed the row's
\* mobile.
C30_Witness ==
    /\ twin.request.op = "update"
    /\ lastCall.status = 200
    /\ "created_by" \in DOMAIN twin.request.agent
    /\ twin.request.agent.created_by = 2
    /\ \E r \in pennyekart_agents :
          /\ r.id = twin.request.id
          /\ r.mobile = twin.request.agent.mobile
          /\ r.created_by = 1
          /\ r.created_at = 1

\* a create whose body carried created_by = 2 stored a row with created_by = 1
C30_WitnessCreate ==
    /\ twin.request.op = "create"
    /\ lastCall.status = 200
    /\ "created_by" \in DOMAIN twin.request.agent
    /\ twin.request.agent.created_by = 2
    /\ \E r \in pennyekart_agents :
          r.mobile = twin.request.agent.mobile /\ r.created_by = 1

(***************************************************************************)
(* Properties of isSubmitting under calls that overlap.                    *)
(***************************************************************************)
\* C26: isSubmitting is true whenever at least one mutation of the instance
\* is in flight, also when two overlap, and false once every mutation that
\* was started has settled.
C26_SubmittingIffInFlight ==
    isSubmitting <=> pending # <<>>

\* isSubmitting is false once every started mutation has settled, and true
\* while the call started last is in flight
SubmittingFalseWhenSettled ==
    /\ pending = <<>> => ~ isSubmitting
    /\ [][started' # started => isSubmitting']_vars

(***************************************************************************)
(* Properties of the state usePennyekartAgents returns.                    *)
(***************************************************************************)
\* the step ends a fetch in failure / starts a fetch
FetchFailedStep == Len(inflight') < Len(inflight) /\ settled' = "failed"

FetchStartedStep == issued' = issued + 1

\* C27: hierarchyTree is always the tree of the current agents; a fetch that
\* fails leaves agents and hierarchyTree as they were, sets error to a
\* message and isLoading to false; the start of every fetch sets error to
\* null.
C27_TreeFollowsAgents ==
    /\ [](hierarchyTree = buildHierarchyTree(agents))
    /\ [][FetchFailedStep =>
            /\ UNCHANGED <<agents, hierarchyTree>>
            /\ error' # NoError
            /\ isLoading' = FALSE]_vars
    /\ [][FetchStartedStep => error' = NoError]_vars

\* C27 witness: the second fetch was started while the first was in flight
\* (which set error to null), the first gave agents, and the second then
\* failed: the agents and their tree are still there, with the message.
C27_Witness ==
    /\ issued = 2
    /\ agents # <<>>
    /\ hierarchyTree = buildHierarchyTree(agents)
    /\ settled = "failed"
    /\ inflight = <<>>
    /\ error # NoError
    /\ ~ isLoading

(***************************************************************************)
(* Properties of the two lists the forms of the dialog share.              *)
(***************************************************************************)
\* the wards of the panchayath selected in a form: 1 .. its ward count
WardsOfSelection(sel) ==
    IF \E p \in PanchayathRows : p.id = sel.panchayath_id /\ p.ward > 0
    THEN LET p == CHOOSE p \in PanchayathRows : p.id = sel.panchayath_id
         IN  [i \in 1..p.ward |-> i]
    ELSE <<>>

\* C28: once the panchayaths are loaded and no parent query is awaited, the
\* parent candidates and the ward options the shown form offers are those of
\* that form's own role and panchayath, however the selections of the two
\* forms and the answers of the queries interleave.
C28_ListsFollowShownForm ==
    (panchayaths # {} /\ parentFetches = <<>>) =>
        /\ potentialParents =
              CandidateParents(pennyekart_agents, ShownSelection.role,
                               ShownSelection.panchayath_id)
        /\ wardOptions = WardsOfSelection(ShownSelection)

\* the same for the ward options alone
WardOptionsFollowShownForm ==
    panchayaths # {} => wardOptions = WardsOfSelection(ShownSelection)

\* the same for the ward options while only the bulk form is used
WardOptionsFollowBulkForm ==
    (panchayaths # {} /\ activeTab = "bulk" /\ singleSelected = DialogDefaults) =>
        wardOptions = WardsOfSelection(bulkSelected)

(***************************************************************************)
(* Properties of the stored admin session.                                 *)
(***************************************************************************)
\* after signOut, until the next signInAsAdmin, nothing is stored under
\* elife_admin_token
NoTokenAfterSignOut ==
    lastAuth = "signOut" => localStorage.elife_admin_token = NoToken

\* a mutation called after signOut returns "Not authenticated as admin" and
\* makes no request
MutationAfterSignOutNotSent ==
    [][(lastAuth = "signOut" /\ calls' = calls + 1) =>
          /\ httpRequests' = 0
          /\ returned'.value.error = "Not authenticated as admin"]_vars

\* the two keys are both stored or both not stored
KeysStoredTogether ==
    (localStorage.elife_admin_token = NoToken) <=>
        (localStorage.elife_admin_data = NoAdminData)

\* C29: after signOut, whatever signInAsAdmin, page loads and signOut came
\* before, no token is stored under elife_admin_token and every mutation
\* fails with "Not authenticated as admin" without a request; and the token
\* key and the admin-data key are always both present or both absent.
C29_SignOutClearsSession ==
    /\ []NoTokenAfterSignOut
    /\ MutationAfterSignOutNotSent
    /\ []KeysStoredTogether

\* a mutation was called after a sign-in and a sign-out and was not sent
SignedOutMutationRefused ==
    /\ lastAuth = "signOut"
    /\ calls = 1
    /\ httpRequests = 0
    /\ returned.value.error = "Not authenticated as admin"

====
